---- MODULE Spec2Model ----
(***************************************************************************)
(* The bulk write pipeline of relevanceai/api/batch/batch_insert.py:       *)
(* BatchInsertClient._write_documents (chunking, retry passes, chunk-size  *)
(* shrinking, failed/cancelled bookkeeping), its callers _insert_documents,*)
(* _update_documents and _insert_csv_chunk, _process_insert_results, the   *)
(* three pull-update-push functions and _apply_bulk_fn; and, of            *)
(* relevanceai/operations/visualise/cluster.py, the constructor of         *)
(* ClusterVizOps, _get_cluster_field_name and list_cluster_ids.            *)
(*                                                                         *)
(* Documents are represented by their "_id" (a positive integer); a        *)
(* document without "_id" is NoId.  The scheduler (multithread), the       *)
(* transport (the insert_function), _convert_id_to_string and the service's*)
(* get_where and facets and the bulk_fn of _apply_bulk_fn are not part of  *)
(* the sources; they are modelled from the specification.                  *)
(***************************************************************************)
EXTENDS Integers, Sequences, FiniteSets, TLC

----------------------------------------------------------------------------
(* Bounds of the model *)

\* largest number of input documents
MaxDocs == 3
\* largest configured retries.number_of_retries
MaxRetries == 2

----------------------------------------------------------------------------
(* Program constants *)

BYTE_TO_MB == 1048576
LIST_SIZE_MULTIPLIER == 3

SUCCESS_CODES == {200}
\* variant: 413 is listed among the codes that cancel a chunk
RETRY_CODES_WITH_413 == {400, 404, 413}

RETRY_CODES == {400, 404}
HALF_CHUNK_CODES == {413, 524}

\* a status code outside the three lists: handled by the final else branch
OTHER_CODES == {500}

----------------------------------------------------------------------------
(* Input domains *)

NoId == 0

\* retry_chunk_mult as an exact fraction num/den (0.5 is the default)
RetryChunkMults == { [num |-> 1, den |-> 2], [num |-> 3, den |-> 4] }

\* max_workers of the scheduler
MaxWorkersValues == {1, 2}

\* sys.getsizeof(json.dumps(documents[0])) of the probed document, in bytes
DocBytesValues == {1000, 200000, 400000}
\* upload.target_chunk_mb
TargetChunkMbValues == {1}
\* upload.max_chunk_size
MaxChunkSizeValues == {1, 2}

----------------------------------------------------------------------------
(* Helpers on sequences *)

Range(s) == { s[k] : k \in 1..Len(s) }

NoDuplicates(s) == \A a, b \in 1..Len(s) : a # b => s[a] # s[b]

\* [x for x in s if x in keep], order preserved
RECURSIVE FilterIn(_, _)
FilterIn(s, keep) ==
    IF s = << >> THEN << >>
    ELSE IF Head(s) \in keep
         THEN << Head(s) >> \o FilterIn(Tail(s), keep)
         ELSE FilterIn(Tail(s), keep)

Min(a, b) == IF a < b THEN a ELSE b
Max(a, b) == IF a > b THEN a ELSE b

VARIABLES
    pc,                 \* position of the call
    documents,          \* the documents still to be written (sequence of ids)
    chunksize,          \* chunksize argument / current chunk size
    retry_chunk_mult,   \* multiplier applied on 413/524
    max_workers,        \* worker pool size of the scheduler
    number_of_retries,  \* config retries.number_of_retries
    create_id,          \* _insert_documents(create_id=...)
    i,                  \* loop variable of the retry loop
    inserted,           \* running total of response_json["inserted"]
    failed_ids,
    failed_ids_detailed,
    cancelled_ids,
    chunks,             \* the chunks submitted in the current pass
    pending,            \* indexes of submitted chunks not yet completed
    insert_json,        \* results of the current pass, in completion order
    output,             \* the returned mapping
    error,              \* the exception raised to the caller
    \* history of the call, used only to state properties
    input,              \* the ids _write_documents was called with
    written,            \* ids the transport reported as written
    givenUp,            \* ids of chunks answered 400/404
    retrySet,           \* ids to retry according to the last completed pass
    passes,             \* passes dispatched
    calls,              \* transport calls completed
    sleeps,             \* time.sleep calls
    allTransient,       \* every transport answer so far was "other"
    allOverload,        \* every transport answer so far was 413/524
    threw,              \* a transport call raised in the pass last run
    usedSize,           \* chunk size of the current/last pass
    prevSize,           \* chunk size of the pass before it (0: none)
    lastOverload,       \* the last completed pass had a 413/524 chunk
    listed,             \* ids the 200 answers of that pass listed as failed
    \* _process_insert_results
    results,            \* the results argument
    return_json,        \* the return_json argument
    response,           \* the value handed back: None or the mapping
    \* _insert_csv_chunk
    csv_chunk,          \* the DataFrame chunk: its row count and its columns
    col_for_id,         \* the col_for_id argument
    auto_generate_id,   \* the auto_generate_id argument
    given,              \* the DataFrame as it was passed in
    \* pull_update_push, pull_update_push_async, pull_update_push_to_cloud
    variant,            \* which of the three was called
    is_callable,        \* callable(update_function)
    logging_dataset_id, \* cloud variant: the name of the logging collection
    dataset,            \* ids of the documents of the dataset, service order
    number_of_retrieve_retries,
    max_error,
    retrieve_multiplier,    \* retrieve_chunk_size_failure_retry_multiplier
    retrieve_chunk_size,
    logged,             \* ids in the checkpoint file / logging collection
    file_exists,        \* sync variant: the checkpoint file is on disk
    log_deletes,        \* delete_pull_update_push_logs calls made
    chunk_failed,       \* cloud variant: the failed list of the write
    iterations_required,
    pup_iter,           \* iterations of the retrieval loop done
    pup_retry,          \* iterations of the outer loop of the cloud variant
    retrieved,          \* the batch retrieved last (its ids)
    failed_documents,
    tasks,              \* async variant: per subset task, what it returned
    pup_output,         \* the value returned to the caller
    \* history of the run
    retrievals,         \* batches retrieved
    transforms,         \* update_function calls that returned
    writes,             \* batches handed to the write
    update_threw,       \* update_function has thrown
    pushed,             \* ids of the batches handed to the write
    checkpoint,         \* the checkpoint as the call found it
    \* _apply_bulk_fn
    documents_remaining,
    num_documents_inserted,
    bulk_iter,          \* iterations of the retry loop done
    bulk_output,        \* the mapping returned
    bulk_calls,         \* bulk_fn calls made
    bulk_sent,          \* ids of the documents of the last bulk_fn call
    bulk_written,       \* ids the bulk_fn calls so far reported written
    \* ClusterVizOps
    vector_fields,      \* self.vector_fields: its type and its content
    alias,              \* self.alias
    alias_arg,          \* the alias argument of the call
    minimum_cluster_size,
    num_clusters,
    called,             \* the method called on the instance
    cluster_field,      \* the name _get_cluster_field_name returned
    all_cluster_ids,
    facet_results,      \* the facet response read last
    cluster_output      \* the list returned by list_cluster_ids

writeVars == << pc, documents, chunksize, retry_chunk_mult, max_workers,
           number_of_retries, create_id, i, inserted, failed_ids,
           failed_ids_detailed, cancelled_ids, chunks, pending, insert_json,
           output, error, input, written, givenUp, retrySet, passes, calls,
           sleeps, allTransient, allOverload, threw, usedSize, prevSize,
           lastOverload, listed >>

resultVars == << results, return_json, response >>

\* the variables of the operations outside the write pipeline
csvVars == << csv_chunk, col_for_id, auto_generate_id, given >>

pupArgs == << variant, is_callable, logging_dataset_id, dataset,
             number_of_retrieve_retries, max_error, retrieve_multiplier,
             checkpoint >>
pupHist == << retrievals, transforms, writes, update_threw, pushed >>
pupVars == << pupArgs, file_exists, log_deletes, chunk_failed,
              retrieve_chunk_size, logged,
              iterations_required,
              pup_iter, pup_retry, retrieved, failed_documents, tasks,
              pup_output, pupHist >>

bulkVars == << documents_remaining, num_documents_inserted, bulk_iter,
              bulk_output, bulk_calls, bulk_sent, bulk_written >>

clusterArgs == << alias, alias_arg, minimum_cluster_size, num_clusters >>
clusterVars == << vector_fields, clusterArgs, called, cluster_field,
                 all_cluster_ids, facet_results, cluster_output >>

outside == << resultVars, csvVars, pupVars, bulkVars, clusterVars >>

vars == << writeVars, outside >>

args == << retry_chunk_mult, max_workers, number_of_retries, create_id >>
book == << inserted, failed_ids, failed_ids_detailed, cancelled_ids >>
hist == << written, givenUp, retrySet, passes, calls, sleeps, allTransient,
           allOverload, threw, usedSize, prevSize, lastOverload, listed >>

NoOutput == [ inserted |-> -1, failed_documents |-> << >>,
              failed_documents_detailed |-> << >> ]

----------------------------------------------------------------------------
(* Collaborators outside the sources, modelled from the specification *)

\* Scheduler, step 2a: the remaining documents cut into consecutive chunks of
\* n documents, original order kept (the last chunk may be shorter).
Chunk(docs, n) ==
    [ k \in 1..((Len(docs) + n - 1) \div n) |->
        SubSeq(docs, (k - 1) * n + 1, Min(k * n, Len(docs))) ]

\* A partition into chunks of n documents exists only for n >= 1.
CanChunk(n) == n >= 1

\* Scheduler: at most max_workers chunk writes are in flight; chunks start in
\* submission order, so chunk k runs once fewer than max_workers unfinished
\* chunks precede it.
InFlight(k, pend, workers) ==
    /\ k \in pend
    /\ Cardinality({ j \in pend : j < k }) < workers

\* Transport: the answers one chunk write can produce.  A 200 answer lists
\* the documents of the chunk it failed to write and counts the others; any
\* other answer writes nothing.  A raised exception reaches the writer as an
\* answer of the "other" status class.
TransportResults(c) ==
    { [ status_code |-> 200, inserted |-> Len(c) - Len(f),
        failed_documents |-> f, documents |-> c, exc |-> FALSE ] :
          f \in { FilterIn(c, S) : S \in SUBSET Range(c) } }
    \cup
    { [ status_code |-> s, inserted |-> 0, failed_documents |-> << >>,
        documents |-> c, exc |-> FALSE ] :
          s \in RETRY_CODES \cup HALF_CHUNK_CODES \cup OTHER_CODES }
    \cup
    { [ status_code |-> s, inserted |-> 0, failed_documents |-> << >>,
        documents |-> c, exc |-> TRUE ] : s \in OTHER_CODES }

\* Utils._convert_id_to_string: TRUE when it raises MissingFieldError.
ConvertRaises(docs, create) ==
    (\E k \in 1..Len(docs) : docs[k] = NoId) /\ ~create

\* Utils._convert_id_to_string: documents lacking "_id" get a generated one
\* (a uuid, here an id no input document carries).
ConvertIdToString(docs) ==
    [ k \in 1..Len(docs) |-> IF docs[k] = NoId THEN MaxDocs + k ELSE docs[k] ]

----------------------------------------------------------------------------
(* _write_documents, lines 996-1119 *)

ZeroOutput == [ inserted |-> 0, failed_documents |-> << >>,
                failed_documents_detailed |-> << >> ]

\* lines 1017-1027: chunk size when chunksize = 0 is passed.
\* int(target_chunk_mb / doc_mb), doc_mb = getsizeof * 3 / BYTE_TO_MB
ProbeQuotient(docBytes, targetMb) ==
    (targetMb * BYTE_TO_MB) \div (docBytes * LIST_SIZE_MULTIPLIER)

AutoChunksize(nDocs, docBytes, targetMb, maxChunkSize) ==
    Max(IF ProbeQuotient(docBytes, targetMb) + 1 < nDocs
        THEN ProbeQuotient(docBytes, targetMb) + 1
        ELSE nDocs,
        maxChunkSize)

\* variant: the multiplier is applied inverted, the chunk size grows
ShrinkChunksizeGrow(size, mult) == (size * mult.den) \div mult.num

\* line 1095: int(chunksize * retry_chunk_mult)
ShrinkChunksize(size, mult) == (size * mult.num) \div mult.den

\* lines 1066-1074: sum of response_json["inserted"] over the 200 chunks
RECURSIVE InsertedOf(_)
InsertedOf(answers) ==
    IF answers = << >> THEN 0
    ELSE (IF Head(answers).status_code = 200 THEN Head(answers).inserted ELSE 0)
         + InsertedOf(Tail(answers))

\* variant: the documents of a 400/404 chunk are also put back for retry
ClassifyChunkRetryCancelled(st, chunk, mult) ==
    IF chunk.status_code \in SUCCESS_CODES
    THEN [ st EXCEPT !.failed_ids = @ \o chunk.failed_documents,
                     !.failed_ids_detailed = @ \o chunk.failed_documents ]
    ELSE IF chunk.status_code \in RETRY_CODES
    THEN [ st EXCEPT !.cancelled_ids = @ \o chunk.documents,
                     !.failed_ids = @ \o chunk.documents ]
    ELSE IF chunk.status_code \in HALF_CHUNK_CODES
    THEN [ st EXCEPT !.failed_ids = @ \o chunk.documents,
                     !.chunksize = ShrinkChunksize(@, mult) ]
    ELSE [ st EXCEPT !.failed_ids = @ \o chunk.documents ]

\* variant: every document of a 200 chunk is put back for retry
ClassifyChunkRetrySuccess(st, chunk, mult) ==
    IF chunk.status_code \in SUCCESS_CODES
    THEN [ st EXCEPT !.failed_ids = @ \o chunk.documents,
                     !.failed_ids_detailed = @ \o chunk.failed_documents ]
    ELSE IF chunk.status_code \in RETRY_CODES
    THEN [ st EXCEPT !.cancelled_ids = @ \o chunk.documents ]
    ELSE IF chunk.status_code \in HALF_CHUNK_CODES
    THEN [ st EXCEPT !.failed_ids = @ \o chunk.documents,
                     !.chunksize = ShrinkChunksize(@, mult) ]
    ELSE [ st EXCEPT !.failed_ids = @ \o chunk.documents ]

\* variant: the documents of every chunk put back for retry get a detailed
\* record
ClassifyChunkDetailAll(st, chunk, mult) ==
    IF chunk.status_code \in SUCCESS_CODES
    THEN [ st EXCEPT !.failed_ids = @ \o chunk.failed_documents,
                     !.failed_ids_detailed = @ \o chunk.failed_documents ]
    ELSE IF chunk.status_code \in RETRY_CODES
    THEN [ st EXCEPT !.cancelled_ids = @ \o chunk.documents ]
    ELSE IF chunk.status_code \in HALF_CHUNK_CODES
    THEN [ st EXCEPT !.failed_ids = @ \o chunk.documents,
                     !.failed_ids_detailed = @ \o chunk.documents,
                     !.chunksize = ShrinkChunksize(@, mult) ]
    ELSE [ st EXCEPT !.failed_ids = @ \o chunk.documents,
                     !.failed_ids_detailed = @ \o chunk.documents ]

\* variant: a chunk with any other status is forgotten instead of retried
ClassifyChunkDropOther(st, chunk, mult) ==
    IF chunk.status_code \in SUCCESS_CODES
    THEN [ st EXCEPT !.failed_ids = @ \o chunk.failed_documents,
                     !.failed_ids_detailed = @ \o chunk.failed_documents ]
    ELSE IF chunk.status_code \in RETRY_CODES
    THEN [ st EXCEPT !.cancelled_ids = @ \o chunk.documents ]
    ELSE IF chunk.status_code \in HALF_CHUNK_CODES
    THEN [ st EXCEPT !.failed_ids = @ \o chunk.documents,
                     !.chunksize = ShrinkChunksize(@, mult) ]
    ELSE st

\* lines 1078-1099: the body of "for chunk in insert_json" on the state
\* st = [failed_ids, failed_ids_detailed, cancelled_ids, chunksize]
ClassifyChunk(st, chunk, mult) ==
    IF chunk.status_code \in SUCCESS_CODES
    THEN [ st EXCEPT !.failed_ids = @ \o chunk.failed_documents,
                     !.failed_ids_detailed = @ \o chunk.failed_documents ]
    ELSE IF chunk.status_code \in RETRY_CODES
    THEN [ st EXCEPT !.cancelled_ids = @ \o chunk.documents ]
    ELSE IF chunk.status_code \in HALF_CHUNK_CODES
    THEN [ st EXCEPT !.failed_ids = @ \o chunk.documents,
                     !.chunksize = ShrinkChunksize(@, mult) ]
    ELSE [ st EXCEPT !.failed_ids = @ \o chunk.documents ]

\* lines 1076-1099: the loop over insert_json
RECURSIVE ClassifyAll(_, _, _)
ClassifyAll(st, answers, mult) ==
    IF answers = << >> THEN st
    ELSE ClassifyAll(ClassifyChunk(st, Head(answers), mult), Tail(answers), mult)

\* variant: the document list is not narrowed to the failed documents
RebuildKeepAll(docs, failed) == docs

\* variant: the failed documents are kept in reverse order
RebuildReversed(docs, failed) ==
    [ k \in 1..Len(FilterIn(docs, Range(failed))) |->
        FilterIn(docs, Range(failed))[Len(FilterIn(docs, Range(failed))) + 1 - k] ]

\* line 1105: documents = [i for i in documents if i["_id"] in failed_ids]
Rebuild(docs, failed) == FilterIn(docs, Range(failed))

\* variant: the loop does not stop on an empty failed list
LoopContinuesIgnoreEmpty(iter, retries, failed) == iter < retries

\* lines 1041-1042: another pass is run
LoopContinues(iter, retries, failed) == iter < retries /\ Len(failed) > 0

\* variant: the cancelled ids are not merged into the failed list
OutputNoCancelled(ins, failed, detailed, cancelled) ==
    [ inserted |-> ins, failed_documents |-> failed,
      failed_documents_detailed |-> detailed ]

\* lines 1111-1119
Output(ins, failed, detailed, cancelled) ==
    [ inserted |-> ins, failed_documents |-> failed \o cancelled,
      failed_documents_detailed |-> detailed ]

----------------------------------------------------------------------------
(* Status classes of the transport interface, used by the history *)

StatusClass(code) ==
    IF code = 200 THEN "Success"
    ELSE IF code \in {400, 404} THEN "GiveUp"
    ELSE IF code \in {413, 524} THEN "Overload"
    ELSE "Transient"

ResultsOf(answers, class) ==
    { k \in 1..Len(answers) : StatusClass(answers[k].status_code) = class }

\* ids of the documents of the results of one class
DocsOf(answers, class) ==
    UNION { Range(answers[k].documents) : k \in ResultsOf(answers, class) }

\* ids a 200 answer lists as failed
ListedFailed(answers) ==
    UNION { Range(answers[k].failed_documents) : k \in ResultsOf(answers, "Success") }

----------------------------------------------------------------------------
(* Actions *)

\* variant: no early return on an empty list, documents[0] is read
WriteDocumentsUnguarded ==
    /\ pc = "start"
    /\ IF Len(documents) = 0
       THEN /\ error' = "IndexError"
            /\ pc' = "raised"
            /\ UNCHANGED << chunksize, i, book, input, retrySet >>
       ELSE /\ IF chunksize = 0
               THEN \E b \in DocBytesValues, t \in TargetChunkMbValues,
                       m \in MaxChunkSizeValues :
                         chunksize' = AutoChunksize(Len(documents), b, t, m)
               ELSE UNCHANGED chunksize
            /\ inserted' = 0
            /\ failed_ids' = documents
            /\ failed_ids_detailed' = << >>
            /\ cancelled_ids' = << >>
            /\ i' = 0
            /\ input' = Range(documents)
            /\ retrySet' = Range(documents)
            /\ pc' = "loop"
            /\ UNCHANGED error
    /\ UNCHANGED << documents, args, chunks, pending, insert_json, output,
                    written, givenUp, passes, calls, sleeps, allTransient,
                    allOverload, threw, usedSize, prevSize, lastOverload,
                    listed >>
    /\ UNCHANGED outside

\* lines 1007-1039: the empty-input return, the initial chunk size and the
\* initial bookkeeping
WriteDocuments ==
    /\ pc = "start"
    /\ IF Len(documents) = 0
       THEN /\ output' = ZeroOutput
            /\ pc' = "returned"
            /\ UNCHANGED << chunksize, i, book, input, retrySet >>
       ELSE /\ IF chunksize = 0
               THEN \E b \in DocBytesValues, t \in TargetChunkMbValues,
                       m \in MaxChunkSizeValues :
                         chunksize' = AutoChunksize(Len(documents), b, t, m)
               ELSE UNCHANGED chunksize
            /\ inserted' = 0
            /\ failed_ids' = documents
            /\ failed_ids_detailed' = << >>
            /\ cancelled_ids' = << >>
            /\ i' = 0
            /\ input' = Range(documents)
            /\ retrySet' = Range(documents)
            /\ pc' = "loop"
            /\ UNCHANGED output
    /\ UNCHANGED << documents, args, chunks, pending, insert_json, error,
                    written, givenUp, passes, calls, sleeps, allTransient,
                    allOverload, threw, usedSize, prevSize, lastOverload,
                    listed >>
    /\ UNCHANGED outside

\* lines 1041-1063: the loop head and the submission of one pass.  failed_ids
\* and failed_ids_detailed are not read between the submission and lines
\* 1062-1063, which empty them; they are emptied with the submission.
Dispatch ==
    /\ pc = "loop"
    /\ LoopContinues(i, number_of_retries, failed_ids)
    /\ IF CanChunk(chunksize)
       THEN /\ chunks' = Chunk(documents, chunksize)
            /\ pending' = DOMAIN Chunk(documents, chunksize)
            /\ insert_json' = << >>
            /\ passes' = passes + 1
            /\ prevSize' = usedSize
            /\ usedSize' = chunksize
            /\ threw' = FALSE
            /\ failed_ids' = << >>
            /\ failed_ids_detailed' = << >>
            /\ listed' = {}
            /\ pc' = "inflight"
            /\ UNCHANGED error
       ELSE /\ error' = "ValueError"
            /\ pc' = "raised"
            /\ UNCHANGED << chunks, pending, insert_json, passes, prevSize,
                            usedSize, threw, failed_ids, failed_ids_detailed,
                            listed >>
    /\ UNCHANGED << documents, chunksize, args, i, inserted, cancelled_ids,
                    output, input,
                    written, givenUp, retrySet, calls, sleeps, allTransient,
                    allOverload,
                    lastOverload >>
    /\ UNCHANGED outside

\* one chunk write of the pass completes; its result is collected
Complete(k) ==
    /\ pc = "inflight"
    /\ InFlight(k, pending, max_workers)
    /\ \E r \in TransportResults(chunks[k]) :
         /\ insert_json' = Append(insert_json, r)
         /\ allTransient' = (allTransient /\ StatusClass(r.status_code) = "Transient")
         /\ allOverload' = (allOverload /\ StatusClass(r.status_code) = "Overload")
         /\ threw' = (threw \/ r.exc)
    /\ pending' = pending \ {k}
    /\ calls' = calls + 1
    /\ UNCHANGED << pc, documents, chunksize, args, i, book, chunks, output,
                    error, input, written, givenUp, retrySet, passes, sleeps,
                    usedSize, prevSize, lastOverload,
                    listed >>
    /\ UNCHANGED outside

\* variant: the bookkeeping of the pass does not wait for the last chunk write
CollectEarly ==
    /\ pc = "inflight"
    /\ LET st == ClassifyAll([ failed_ids |-> << >>,
                               failed_ids_detailed |-> << >>,
                               cancelled_ids |-> cancelled_ids,
                               chunksize |-> chunksize ],
                             insert_json, retry_chunk_mult)
       IN /\ inserted' = inserted + InsertedOf(insert_json)
          /\ failed_ids' = st.failed_ids
          /\ failed_ids_detailed' = st.failed_ids_detailed
          /\ cancelled_ids' = st.cancelled_ids
          /\ chunksize' = st.chunksize
          /\ documents' = Rebuild(documents, st.failed_ids)
    /\ written' = written \cup (DocsOf(insert_json, "Success") \ ListedFailed(insert_json))
    /\ givenUp' = givenUp \cup DocsOf(insert_json, "GiveUp")
    /\ retrySet' = ListedFailed(insert_json) \cup DocsOf(insert_json, "Overload")
                     \cup DocsOf(insert_json, "Transient")
    /\ lastOverload' = (ResultsOf(insert_json, "Overload") # {})
    /\ listed' = ListedFailed(insert_json)
    /\ chunks' = << >>
    /\ insert_json' = << >>
    /\ pc' = "sleep"
    /\ UNCHANGED << args, i, pending, output, error,
                    input, passes, calls, sleeps, allTransient, allOverload, threw,
                    usedSize, prevSize >>
    /\ UNCHANGED outside

\* lines 1062-1105: all results are in; bookkeeping of the pass.  The results
\* and the chunks are not read again after the pass and are dropped here.
Collect ==
    /\ pc = "inflight"
    /\ pending = {}
    /\ LET st == ClassifyAll([ failed_ids |-> << >>,
                               failed_ids_detailed |-> << >>,
                               cancelled_ids |-> cancelled_ids,
                               chunksize |-> chunksize ],
                             insert_json, retry_chunk_mult)
       IN /\ inserted' = inserted + InsertedOf(insert_json)
          /\ failed_ids' = st.failed_ids
          /\ failed_ids_detailed' = st.failed_ids_detailed
          /\ cancelled_ids' = st.cancelled_ids
          /\ chunksize' = st.chunksize
          /\ documents' = Rebuild(documents, st.failed_ids)
    /\ written' = written \cup (DocsOf(insert_json, "Success") \ ListedFailed(insert_json))
    /\ givenUp' = givenUp \cup DocsOf(insert_json, "GiveUp")
    /\ retrySet' = ListedFailed(insert_json) \cup DocsOf(insert_json, "Overload")
                     \cup DocsOf(insert_json, "Transient")
    /\ lastOverload' = (ResultsOf(insert_json, "Overload") # {})
    /\ listed' = ListedFailed(insert_json)
    /\ chunks' = << >>
    /\ insert_json' = << >>
    /\ pc' = "sleep"
    /\ UNCHANGED << args, i, pending, output, error,
                    input, passes, calls, sleeps, allTransient, allOverload, threw,
                    usedSize, prevSize >>
    /\ UNCHANGED outside

\* line 1109: time.sleep, then the next iteration of the for loop
Sleep ==
    /\ pc = "sleep"
    /\ sleeps' = sleeps + 1
    /\ i' = i + 1
    /\ pc' = "loop"
    /\ UNCHANGED << documents, chunksize, args, book, chunks, pending,
                    insert_json, output, error, input, written, givenUp,
                    retrySet, passes, calls, allTransient, allOverload, threw, usedSize,
                    prevSize, lastOverload,
                    listed >>
    /\ UNCHANGED outside

\* lines 1107-1108 (break) or the end of the range, then lines 1111-1119
Return ==
    /\ pc = "loop"
    /\ ~LoopContinues(i, number_of_retries, failed_ids)
    /\ output' = Output(inserted, failed_ids, failed_ids_detailed, cancelled_ids)
    /\ pc' = "returned"
    /\ UNCHANGED << documents, chunksize, args, i, book, chunks, pending,
                    insert_json, error, hist, input >>
    /\ UNCHANGED outside

\* variant: _write_documents is entered without the id conversion
InsertDocumentsUnconverted ==
    /\ pc = "insert"
    /\ pc' = "start"
    /\ UNCHANGED << documents, error, chunksize, args, i, book, chunks, pending,
                    insert_json, output, hist, input >>
    /\ UNCHANGED outside

\* _insert_documents, lines 105-133: ids are converted (or the call fails)
\* before _write_documents is entered
InsertDocuments ==
    /\ pc = "insert"
    /\ IF ConvertRaises(documents, create_id)
       THEN /\ error' = "MissingFieldError"
            /\ pc' = "raised"
            /\ UNCHANGED documents
       ELSE /\ documents' = ConvertIdToString(documents)
            /\ pc' = "start"
            /\ UNCHANGED error
    /\ UNCHANGED << chunksize, args, i, book, chunks, pending, insert_json,
                    output, hist, input >>
    /\ UNCHANGED outside

\* variant: _write_documents is entered without the id conversion
UpdateDocumentsUnconverted ==
    /\ pc = "update"
    /\ pc' = "start"
    /\ UNCHANGED << documents, error, chunksize, args, i, book, chunks, pending,
                    insert_json, output, hist, input >>
    /\ UNCHANGED outside

\* _update_documents, lines 326-349: ids are converted (or the call fails)
\* first; the json encoding that follows leaves the "_id" key as it is, and
\* the converted documents go to _write_documents
UpdateDocuments ==
    /\ pc = "update"
    /\ IF ConvertRaises(documents, create_id)
       THEN /\ error' = "MissingFieldError"
            /\ pc' = "raised"
            /\ UNCHANGED documents
       ELSE /\ documents' = ConvertIdToString(documents)
            /\ pc' = "start"
            /\ UNCHANGED error
    /\ UNCHANGED << chunksize, args, i, book, chunks, pending, insert_json,
                    output, hist, input >>
    /\ UNCHANGED outside

----------------------------------------------------------------------------
(* _process_insert_results, lines 1197-1222 *)

\* the return value None; a returned mapping r is << r >>
None == << >>

NoResults == [ inserted |-> 0 ]

\* results.get(key, [])
Get(r, key) == IF key \in DOMAIN r THEN r[key] ELSE << >>

\* variant: the older key failed_document_ids is not looked at
ProcessInsertResultsOneKey(r, rj) ==
    IF Len(Get(r, "failed_documents")) > 0 \/ rj THEN << r >> ELSE None

\* lines 1217-1222: the mapping is returned when it lists a failed document
\* under either key or when return_json is set; otherwise nothing is returned
ProcessInsertResults(r, rj) ==
    IF Len(Get(r, "failed_documents")) + Len(Get(r, "failed_document_ids")) > 0
         \/ rj
    THEN << r >>
    ELSE None

\* the lists of failed documents a results mapping may hold
FailedLists ==
    { FilterIn([ k \in 1..MaxDocs |-> k ], S) : S \in SUBSET (1..MaxDocs) }

\* the results mappings: what _write_documents returns, the same with the
\* older key failed_document_ids beside or instead of failed_documents, and
\* a mapping with neither key
ResultsValues ==
    { Output(n, f, << >>, << >>) : n \in 0..MaxDocs, f \in FailedLists }
    \cup
    { [ inserted |-> n, failed_documents |-> f, failed_document_ids |-> g ] :
          n \in 0..MaxDocs, f \in FailedLists, g \in FailedLists }
    \cup
    { [ inserted |-> n, failed_document_ids |-> g ] :
          n \in 0..MaxDocs, g \in FailedLists }
    \cup
    { [ inserted |-> n ] : n \in 0..MaxDocs }

ProcessResults ==
    /\ pc = "results"
    /\ response' = ProcessInsertResults(results, return_json)
    /\ pc' = "processed"
    /\ UNCHANGED << documents, chunksize, args, i, book, chunks, pending,
                    insert_json, output, error, hist, input >>
    /\ UNCHANGED << results, return_json, csvVars, pupVars, bulkVars,
                    clusterVars >>

----------------------------------------------------------------------------
(* _insert_csv_chunk, lines 216-267 *)

\* col_for_id = None
NoCol == "None"

\* line 249
EXCEPTION_COLUMNS == {"_vector_", "_chunk_"}

\* a cell that holds a string, and a cell that holds a list
Str(text) == [ type |-> "str", value |-> text ]
List(items) == [ type |-> "list", value |-> items ]

\* the cells a column of vectors is read with: the text of a list, a list
\* already, a text that is no literal, the text of an unfinished list
VectorCells == { Str("[1, 2]"), List(<< 1, 2 >>), Str("abc"), Str("[1, 2") }

\* no such column
Absent == [ type |-> "absent", value |-> "" ]

\* the columns of vectors a frame may have, each with the cell its last row
\* holds; the rows before it hold the text of a list
VectorColumnChoices ==
    [ {"x_vector_", "doc_chunk_"} -> VectorCells \cup {Absent} ]

\* the DataFrames: n rows, a column "text", any of the columns "_id" and
\* "key" and any of the columns of vectors; row k has "_id" k and "key"
\* 2 * MaxDocs + k
CsvChunks ==
    { [ index |-> n,
        columns |-> [ c \in cs \cup {"text"}
                            \cup { v \in DOMAIN f : f[v].type # "absent" } |->
                        [ k \in 1..n |-> IF c = "_id" THEN k
                                         ELSE IF c = "key" THEN 2 * MaxDocs + k
                                         ELSE IF c = "text" THEN 0
                                         ELSE IF k = n THEN f[c]
                                         ELSE Str("[1, 2]") ] ] ] :
          n \in 1..MaxDocs, cs \in SUBSET {"_id", "key"},
          f \in VectorColumnChoices }

\* the order of the columns of these frames; chunk.insert(0, "_id", ...)
\* puts "_id" first
ColumnOrder == << "_id", "key", "text", "x_vector_", "doc_chunk_" >>

NoChunk == [ index |-> 0, columns |-> << >> ]

\* the values of col_for_id: none, a column of the frame, a column it lacks
ColForIdValues == {NoCol, "key", "other"}

\* one uuid.uuid4() per row: ids no column holds
Uuids(n) == [ k \in 1..n |-> MaxDocs + k ]

\* chunk.insert(0, name, cells, False)
InsertColumn(ch, name, cells) ==
    [ ch EXCEPT !.columns = [ c \in DOMAIN ch.columns \cup {name} |->
                                IF c = name THEN cells ELSE ch.columns[c] ] ]

\* lines 226-239: "_id" taken from col_for_id
WithColForId(ch, col) ==
    IF "_id" \notin DOMAIN ch.columns /\ col # NoCol /\ col \in DOMAIN ch.columns
    THEN InsertColumn(ch, "_id", ch.columns[col])
    ELSE ch

\* variant: generated ids are written whenever auto_generate_id is set
WithUuidsAlways(ch, auto) ==
    IF auto THEN InsertColumn(ch, "_id", Uuids(ch.index)) ELSE ch

\* lines 240-248: "_id" generated
WithUuids(ch, auto) ==
    IF "_id" \notin DOMAIN ch.columns /\ auto
    THEN InsertColumn(ch, "_id", Uuids(ch.index))
    ELSE ch

\* str.endswith
EndsWith(s, suffix) ==
    /\ Len(s) >= Len(suffix)
    /\ SubSeq(s, Len(s) - Len(suffix) + 1, Len(s)) = suffix

\* line 250: the columns whose name ends in one of EXCEPTION_COLUMNS, in the
\* order of the frame
VectorColumns(ch) ==
    SelectSeq(ColumnOrder,
              LAMBDA c : /\ c \in DOMAIN ch.columns
                         /\ \E suffix \in EXCEPTION_COLUMNS :
                                EndsWith(c, suffix))

\* ast.literal_eval of a cell: what it raises ("None" when it returns).  A
\* cell that is no string is a malformed node, so is a text that is no
\* literal; a text that does not parse is a SyntaxError
LiteralEvalRaises(cell) ==
    IF cell.type # "str" THEN "ValueError"
    ELSE IF cell.value = "[1, 2]" THEN "None"
    ELSE IF cell.value = "[1, 2" THEN "SyntaxError"
    ELSE "ValueError"

\* ast.literal_eval of a cell that holds the text of a list: the list
LiteralEval(cell) ==
    IF cell.type = "str" /\ cell.value = "[1, 2]" THEN List(<< 1, 2 >>)
    ELSE cell

\* chunk[i].apply(literal_eval) of line 252: what the first cell that does
\* not evaluate raises
ApplyRaises(cells) ==
    LET bad == { k \in DOMAIN cells : LiteralEvalRaises(cells[k]) # "None" }
    IN IF bad = {} THEN "None"
       ELSE LiteralEvalRaises(
                cells[CHOOSE k \in bad : \A j \in bad : k <= j])

\* lines 251-252: the columns of vectors are evaluated one after the other
\* and assigned back; the first column with a cell that does not evaluate
\* raises and leaves the columns from it on as they were
RECURSIVE EvalColumns(_, _)
EvalColumns(ch, cols) ==
    IF cols = << >> THEN [ chunk |-> ch, raises |-> "None" ]
    ELSE LET c == Head(cols)
             r == ApplyRaises(ch.columns[c])
         IN IF r # "None" THEN [ chunk |-> ch, raises |-> r ]
            ELSE EvalColumns(
                    [ ch EXCEPT !.columns[c] =
                        [ k \in DOMAIN ch.columns[c] |->
                            LiteralEval(ch.columns[c][k]) ] ],
                    Tail(cols))

\* chunk.to_dict(orient="records"): one document per row, here its "_id"
ToDict(ch) == ch.columns["_id"]

\* lines 226-267: the id column is settled, the columns of vectors are
\* evaluated, then the rows are handed to _insert_documents with its
\* default chunksize and create_id
InsertCsvChunk ==
    /\ pc = "csv"
    /\ LET withId == WithUuids(WithColForId(csv_chunk, col_for_id),
                            auto_generate_id)
           evaluated == EvalColumns(withId, VectorColumns(withId))
       IN IF "_id" \notin DOMAIN withId.columns
          THEN /\ csv_chunk' = withId
               /\ error' = "MissingFieldError"
               /\ pc' = "raised"
               /\ UNCHANGED documents
          ELSE /\ csv_chunk' = evaluated.chunk
               /\ IF evaluated.raises # "None"
                  THEN /\ error' = evaluated.raises
                       /\ pc' = "raised"
                       /\ UNCHANGED documents
                  ELSE /\ documents' = ToDict(evaluated.chunk)
                       /\ pc' = "insert"
                       /\ UNCHANGED error
    /\ UNCHANGED << chunksize, args, i, book, chunks, pending, insert_json,
                    output, hist, input >>
    /\ UNCHANGED << col_for_id, auto_generate_id, given, resultVars, pupVars,
                    bulkVars, clusterVars >>

----------------------------------------------------------------------------
(* pull_update_push, lines 353-531, and pull_update_push_to_cloud, lines   *)
(* 757-949.  The write of a batch (_update_documents or _insert_documents) *)
(* is taken by its result: the list of the ids it failed to write, or the *)
(* exception that leaves it.                                               *)

\* retrieve_chunk_size
RetrieveChunkSizes == {1, 2}
\* max_error
MaxErrorValues == {0, 1}
\* retrieve_chunk_size_failure_retry_multiplier as an exact fraction: the
\* default 0.5
RetrieveMultipliers == { [ num |-> 1, den |-> 2 ] }
\* the most delete_pull_update_push_logs calls made during and after a run
MaxDeletes == 1

\* the returned value: not yet returned, None, or the mapping
NoPupOutput == [ kind |-> "unset", failed_documents |-> << >> ]
PupNone == [ kind |-> "None", failed_documents |-> << >> ]
PupDict(failed) == [ kind |-> "dict", failed_documents |-> failed ]

\* math.ceil(a / b) for b > 0
CeilDiv(a, b) == IF a >= 0 THEN (a + b - 1) \div b ELSE - ((- a) \div b)

\* the service's get_where: the first page_size documents of the dataset
\* that the filter does not exclude
GetWhere(ds, excluded, page_size) ==
    SubSeq(FilterIn(ds, Range(ds) \ excluded), 1,
           Min(page_size, Len(FilterIn(ds, Range(ds) \ excluded))))

\* the failed_documents a write of the batch (_update_documents or
\* _insert_documents) may report: lines 1111-1119 list the ids that failed
\* in the last pass in the order their chunks completed, then the cancelled
\* ids, so any ids of the batch in any order
FailedOf(batch) ==
    { f \in UNION { [ 1..k -> Range(batch) ] : k \in 0..Len(batch) } :
        NoDuplicates(f) }

\* lines 1252-1256 and 1263-1266: the failed_documents _apply_bulk_fn may
\* report, the documents of the batch that remain, in the order of the batch
RemainingOf(batch) == { FilterIn(batch, S) : S \in SUBSET Range(batch) }

\* the write of a batch can raise: a retry pass of _write_documents whose
\* chunk size lines 1095-1098 have brought to 0 raises ValueError in the
\* scheduler (see Dispatch); a write of no documents makes no pass
WriteCanRaise(num_documents) == num_documents > 0

\* lines 914-921: the ids the upload to the logging collection writes; its
\* result is not read, so the run goes on with whatever part was written
UploadedOf(success) == SUBSET success

\* dataset_id
DatasetId == "dataset"

\* lines 806-812: the name the logging collection gets when the caller
\* names none
DefaultLoggingDatasetId ==
    DatasetId \o "_" \o "31-10-2026-12-00-00" \o "_pull_update_push"

\* the values of logging_dataset_id: None replaced by the default, or a name
\* of the caller's
LoggingDatasetIds == { DefaultLoggingDatasetId, "my_log" }

\* the values of the dataset_id argument of delete_pull_update_push_logs:
\* False, the dataset, another dataset
DeleteArguments == { "", DatasetId, "other" }

\* sub in s
Contains(s, sub) ==
    \E k \in 1..(Len(s) - Len(sub) + 1) :
        SubSeq(s, k, k + Len(sub) - 1) = sub

\* lines 981-992: the collections delete_pull_update_push_logs deletes
LogCollections(collection_list, dataset_id) ==
    IF dataset_id # ""
    THEN { c \in collection_list : /\ Contains(c, "pull_update_push")
                                   /\ Contains(c, dataset_id) }
    ELSE { c \in collection_list : Contains(c, "pull_update_push") }

\* lines 511 and 911-913: set(updated_documents) - set(failed_documents)
SuccessDocuments(batch, failed) == Range(batch) \ Range(failed)

\* lines 409-457: the check of update_function, the checkpoint, the number
\* of iterations
PullUpdatePush ==
    /\ pc = "pup"
    /\ IF ~is_callable
       THEN /\ error' = "TypeError"
            /\ pc' = "raised"
            /\ UNCHANGED << failed_documents, iterations_required, pup_iter >>
       ELSE /\ failed_documents' = << >>
            /\ iterations_required' =
                 CeilDiv(Len(dataset) - Cardinality(logged), retrieve_chunk_size)
            /\ pup_iter' = 0
            /\ pc' = "pup_loop"
            /\ UNCHANGED error
    /\ UNCHANGED << pupArgs, file_exists, log_deletes, chunk_failed,
                    retrieve_chunk_size, logged, pup_retry, retrieved,
                    tasks, pup_output, pupHist >>
    /\ UNCHANGED << documents, chunksize, args, i, book, chunks, pending,
                    insert_json, output, hist, input, resultVars, csvVars,
                    bulkVars, clusterVars >>

\* lines 467-478: one get_where call; retrieve_filters is the caller's
\* filters only
PupRetrieve ==
    /\ pc = "pup_loop"
    /\ pup_iter < iterations_required
    /\ retrieved' = GetWhere(dataset, {}, retrieve_chunk_size)
    /\ retrievals' = retrievals + 1
    /\ pc' = "pup_update"
    /\ UNCHANGED << pupArgs, file_exists, log_deletes, chunk_failed,
                    retrieve_chunk_size, logged, iterations_required,
                    pup_iter, pup_retry, failed_documents, tasks, pup_output,
                    transforms, writes, update_threw, pushed, error >>
    /\ UNCHANGED << documents, chunksize, args, i, book, chunks, pending,
                    insert_json, output, hist, input, resultVars, csvVars,
                    bulkVars, clusterVars >>

\* variant: the exception of update_function is not caught
PupUpdateUncaught ==
    /\ pc = "pup_update"
    /\ \E throws \in BOOLEAN :
         IF throws
         THEN /\ update_threw' = TRUE
              /\ error' = "Exception"
              /\ pc' = "raised"
              /\ UNCHANGED << transforms, pup_output >>
         ELSE /\ transforms' = transforms + 1
              /\ pc' = "pup_write"
              /\ UNCHANGED << update_threw, pup_output, error >>
    /\ UNCHANGED << pupArgs, file_exists, log_deletes, chunk_failed,
                    retrieve_chunk_size, logged, iterations_required,
                    pup_iter, pup_retry, retrieved, failed_documents, tasks,
                    retrievals, writes, pushed >>
    /\ UNCHANGED << documents, chunksize, args, i, book, chunks, pending,
                    insert_json, output, hist, input, resultVars, csvVars,
                    bulkVars, clusterVars >>

\* lines 480-487: update_function on the batch; an exception is logged and
\* ends the run with a bare return
PupUpdate ==
    /\ pc = "pup_update"
    /\ \E throws \in BOOLEAN :
         IF throws
         THEN /\ update_threw' = TRUE
              /\ pup_output' = PupNone
              /\ pc' = "returned"
              /\ UNCHANGED transforms
         ELSE /\ transforms' = transforms + 1
              /\ pc' = "pup_write"
              /\ UNCHANGED << update_threw, pup_output >>
    /\ UNCHANGED << pupArgs, file_exists, log_deletes, chunk_failed,
                    retrieve_chunk_size, logged, iterations_required,
                    pup_iter, pup_retry, retrieved, failed_documents, tasks,
                    retrievals, writes, pushed, error >>
    /\ UNCHANGED << documents, chunksize, args, i, book, chunks, pending,
                    insert_json, output, hist, input, resultVars, csvVars,
                    bulkVars, clusterVars >>

\* lines 489-515: the write of the batch, the failed lists, the checkpoint.
\* An exception of the write (the ValueError of a pass at chunk size 0) is
\* not caught.  log_ids leaves a file when it has ids to record; whether it
\* does with none is the logger's
PupWrite ==
    /\ pc = "pup_write"
    /\ \/ /\ WriteCanRaise(Len(retrieved))
          /\ error' = "ValueError"
          /\ pc' = "raised"
          /\ UNCHANGED << failed_documents, logged, file_exists, pup_iter >>
       \/ /\ \E write_failed \in FailedOf(retrieved) :
               LET success_documents ==
                       SuccessDocuments(retrieved,
                                        failed_documents \o write_failed)
               IN /\ failed_documents' = failed_documents \o write_failed
                  /\ logged' = logged \cup success_documents
                  /\ file_exists' \in (IF success_documents # {} THEN {TRUE}
                                       ELSE {file_exists, TRUE})
          /\ pup_iter' = pup_iter + 1
          /\ pc' = "pup_loop"
          /\ UNCHANGED error
    /\ writes' = writes + 1
    /\ pushed' = pushed \cup Range(retrieved)
    /\ UNCHANGED << pupArgs, log_deletes, chunk_failed, retrieve_chunk_size,
                    iterations_required, pup_retry, retrieved, tasks,
                    pup_output, retrievals, transforms, update_threw >>
    /\ UNCHANGED << documents, chunksize, args, i, book, chunks, pending,
                    insert_json, output, hist, input, resultVars, csvVars,
                    bulkVars, clusterVars >>

\* lines 517-531: the checkpoint file is removed (os.remove raises
\* FileNotFoundError when there is none), the failed list returned
PupReturn ==
    /\ pc = "pup_loop"
    /\ pup_iter >= iterations_required
    /\ IF file_exists
       THEN /\ logged' = {}
            /\ file_exists' = FALSE
            /\ pup_output' = PupDict(failed_documents)
            /\ pc' = "returned"
            /\ UNCHANGED error
       ELSE /\ error' = "FileNotFoundError"
            /\ pc' = "raised"
            /\ UNCHANGED << logged, file_exists, pup_output >>
    /\ UNCHANGED << pupArgs, log_deletes, chunk_failed, retrieve_chunk_size,
                    iterations_required,
                    pup_iter, pup_retry, retrieved, failed_documents, tasks,
                    pupHist >>
    /\ UNCHANGED << documents, chunksize, args, i, book, chunks, pending,
                    insert_json, output, hist, input, resultVars, csvVars,
                    bulkVars, clusterVars >>

\* lines 801-822: no check of update_function; the logging collection, the
\* empty failed list
PullUpdatePushToCloud ==
    /\ pc = "cloud"
    /\ failed_documents' = << >>
    /\ pup_retry' = 0
    /\ pc' = "cloud_retry"
    /\ UNCHANGED << pupArgs, file_exists, log_deletes, chunk_failed,
                    retrieve_chunk_size, logged, iterations_required,
                    pup_iter, retrieved, tasks, pup_output, pupHist, error >>
    /\ UNCHANGED << documents, chunksize, args, i, book, chunks, pending,
                    insert_json, output, hist, input, resultVars, csvVars,
                    bulkVars, clusterVars >>

\* lines 928-931: int(retrieve_chunk_size * multiplier)
ShrinkRetrieveChunkSize(size, mult) == (size * mult.num) \div mult.den

\* lines 825-843 and 946-949: the head of the outer loop.  The lengths are
\* read and the number of iterations computed (a division by the retrieve
\* chunk size); the run returns when nothing remains or the retries are used
CloudRetry ==
    /\ pc = "cloud_retry"
    /\ IF pup_retry >= number_of_retrieve_retries
       THEN /\ pup_output' = PupDict(failed_documents)
            /\ pc' = "returned"
            /\ UNCHANGED << iterations_required, pup_iter, error >>
       ELSE IF retrieve_chunk_size = 0
       THEN /\ error' = "ZeroDivisionError"
            /\ pc' = "raised"
            /\ UNCHANGED << iterations_required, pup_iter, pup_output >>
       ELSE /\ iterations_required' =
                 CeilDiv(Len(dataset) - Cardinality(logged), retrieve_chunk_size)
            /\ IF Len(dataset) - Cardinality(logged) = 0
               THEN /\ pup_output' = PupDict(failed_documents)
                    /\ pc' = "returned"
                    /\ UNCHANGED pup_iter
               ELSE /\ pup_iter' = 0
                    /\ pc' = "cloud_loop"
                    /\ UNCHANGED pup_output
            /\ UNCHANGED error
    /\ UNCHANGED << pupArgs, file_exists, log_deletes, chunk_failed,
                    retrieve_chunk_size, logged, pup_retry, retrieved,
                    failed_documents, tasks, pupHist >>
    /\ UNCHANGED << documents, chunksize, args, i, book, chunks, pending,
                    insert_json, output, hist, input, resultVars, csvVars,
                    bulkVars, clusterVars >>

\* lines 845-873: the completed ids are read from the logging collection and
\* excluded from the get_where call
CloudRetrieve ==
    /\ pc = "cloud_loop"
    /\ pup_iter < iterations_required
    /\ retrieved' = GetWhere(dataset, logged, retrieve_chunk_size)
    /\ retrievals' = retrievals + 1
    /\ pc' = "cloud_update"
    /\ UNCHANGED << pupArgs, file_exists, log_deletes, chunk_failed,
                    retrieve_chunk_size, logged, iterations_required,
                    pup_iter, pup_retry, failed_documents, tasks, pup_output,
                    transforms, writes, update_threw, pushed, error >>
    /\ UNCHANGED << documents, chunksize, args, i, book, chunks, pending,
                    insert_json, output, hist, input, resultVars, csvVars,
                    bulkVars, clusterVars >>

\* line 944: the inner loop is through; the next retry of the outer loop
CloudLoopEnd ==
    /\ pc = "cloud_loop"
    /\ pup_iter >= iterations_required
    /\ pup_retry' = pup_retry + 1
    /\ pc' = "cloud_retry"
    /\ UNCHANGED << pupArgs, file_exists, log_deletes, chunk_failed,
                    retrieve_chunk_size, logged, iterations_required,
                    pup_iter, retrieved, failed_documents, tasks, pup_output,
                    pupHist, error >>
    /\ UNCHANGED << documents, chunksize, args, i, book, chunks, pending,
                    insert_json, output, hist, input, resultVars, csvVars,
                    bulkVars, clusterVars >>

\* lines 875-885: update_function on the batch; any exception, the TypeError
\* of calling what is not callable included, is logged and ends the run with
\* a bare return
CloudUpdate ==
    /\ pc = "cloud_update"
    /\ \E throws \in (IF is_callable THEN BOOLEAN ELSE {TRUE}) :
         IF throws
         THEN /\ update_threw' = TRUE
              /\ pup_output' = PupNone
              /\ pc' = "returned"
              /\ UNCHANGED transforms
         ELSE /\ transforms' = transforms + 1
              /\ pc' = "cloud_write"
              /\ UNCHANGED << update_threw, pup_output >>
    /\ UNCHANGED << pupArgs, file_exists, log_deletes, chunk_failed,
                    retrieve_chunk_size, logged, iterations_required,
                    pup_iter, pup_retry, retrieved, failed_documents, tasks,
                    retrievals, writes, pushed, error >>
    /\ UNCHANGED << documents, chunksize, args, i, book, chunks, pending,
                    insert_json, output, hist, input, resultVars, csvVars,
                    bulkVars, clusterVars >>

\* lines 887-903: the write of the batch (_update_documents or
\* _insert_documents) is called; the run waits for it
CloudWrite ==
    /\ pc = "cloud_write"
    /\ writes' = writes + 1
    /\ pushed' = pushed \cup Range(retrieved)
    /\ pc' = "cloud_writing"
    /\ UNCHANGED << pupArgs, file_exists, log_deletes, chunk_failed,
                    retrieve_chunk_size, logged, iterations_required,
                    pup_iter, pup_retry, retrieved, failed_documents, tasks,
                    pup_output, retrievals, transforms, update_threw, error >>
    /\ UNCHANGED << documents, chunksize, args, i, book, chunks, pending,
                    insert_json, output, hist, input, resultVars, csvVars,
                    bulkVars, clusterVars >>

\* lines 887-921: the write has ended.  Its exception (the ValueError of a
\* pass at chunk size 0) is not caught; otherwise its failed list is added
\* and the upload of the written ids to the logging collection, an
\* _insert_documents call of its own, is called; the run waits for it
CloudWritten ==
    /\ pc = "cloud_writing"
    /\ \/ /\ WriteCanRaise(Len(retrieved))
          /\ error' = "ValueError"
          /\ pc' = "raised"
          /\ UNCHANGED << chunk_failed, failed_documents >>
       \/ \E write_failed \in FailedOf(retrieved) :
             /\ chunk_failed' = write_failed
             /\ failed_documents' = failed_documents \o write_failed
             /\ pc' = "cloud_uploading"
             /\ UNCHANGED error
    /\ UNCHANGED << pupArgs, file_exists, log_deletes, retrieve_chunk_size,
                    logged, iterations_required, pup_iter, pup_retry,
                    retrieved, tasks, pup_output, pupHist >>
    /\ UNCHANGED << documents, chunksize, args, i, book, chunks, pending,
                    insert_json, output, hist, input, resultVars, csvVars,
                    bulkVars, clusterVars >>

\* lines 914-942: the upload has ended.  Its exception is not caught, and
\* the passes before the one that raised may have written ids; its result
\* is not read, so the logging collection has whatever part of the ids it
\* wrote.  After a failed write the retrieve chunk size is reduced
\* and the run sleeps; otherwise the run returns when the failed list is
\* longer than max_error
CloudUploaded ==
    /\ pc = "cloud_uploading"
    /\ LET success_documents == SuccessDocuments(retrieved, failed_documents)
       IN \/ /\ WriteCanRaise(Cardinality(success_documents))
             /\ \E uploaded \in UploadedOf(success_documents) :
                    logged' = logged \cup uploaded
             /\ error' = "ValueError"
             /\ pc' = "raised"
             /\ UNCHANGED << retrieve_chunk_size, pup_iter, pup_output,
                             chunk_failed >>
          \/ /\ \E uploaded \in UploadedOf(success_documents) :
                    logged' = logged \cup uploaded
             /\ IF Len(chunk_failed) > 0
                THEN /\ retrieve_chunk_size' =
                          ShrinkRetrieveChunkSize(retrieve_chunk_size,
                                                  retrieve_multiplier)
                     /\ pc' = "cloud_sleep"
                     /\ UNCHANGED << pup_iter, pup_output >>
                ELSE IF Len(failed_documents) > max_error
                THEN /\ pup_output' = PupDict(failed_documents)
                     /\ pc' = "returned"
                     /\ UNCHANGED << retrieve_chunk_size, pup_iter >>
                ELSE /\ pup_iter' = pup_iter + 1
                     /\ pc' = "cloud_loop"
                     /\ UNCHANGED << retrieve_chunk_size, pup_output >>
             /\ chunk_failed' = << >>
             /\ UNCHANGED error
    /\ UNCHANGED << pupArgs, file_exists, log_deletes, iterations_required,
                    pup_retry, retrieved, failed_documents, tasks, pupHist >>
    /\ UNCHANGED << documents, chunksize, args, i, book, chunks, pending,
                    insert_json, output, hist, input, resultVars, csvVars,
                    bulkVars, clusterVars >>

\* lines 932-933: time.sleep is over; the break leaves the inner loop for
\* the next retry of the outer loop
CloudSleep ==
    /\ pc = "cloud_sleep"
    /\ pup_retry' = pup_retry + 1
    /\ pc' = "cloud_retry"
    /\ UNCHANGED << pupArgs, file_exists, log_deletes, chunk_failed,
                    retrieve_chunk_size, logged, iterations_required,
                    pup_iter, retrieved, failed_documents, tasks, pup_output,
                    pupHist, error >>
    /\ UNCHANGED << documents, chunksize, args, i, book, chunks, pending,
                    insert_json, output, hist, input, resultVars, csvVars,
                    bulkVars, clusterVars >>

\* lines 979-994: delete_pull_update_push_logs, called by the user while
\* pull_update_push_to_cloud runs or after it.  The collections of the
\* service are the dataset and the logging collection; a deleted logging
\* collection holds no id.  (A call before the run leaves the run one of
\* the checkpoints it can start with.)
DeletePullUpdatePushLogs ==
    /\ variant = "cloud"
    /\ pc # "cloud"
    /\ log_deletes < MaxDeletes
    /\ log_deletes' = log_deletes + 1
    /\ \E dataset_id \in DeleteArguments :
         logged' = IF logging_dataset_id \in
                          LogCollections({DatasetId, logging_dataset_id},
                                         dataset_id)
                   THEN {}
                   ELSE logged
    /\ UNCHANGED << pupArgs, file_exists, chunk_failed, retrieve_chunk_size,
                    iterations_required, pup_iter, pup_retry, retrieved,
                    failed_documents, tasks, pup_output, pupHist, error, pc >>
    /\ UNCHANGED << documents, chunksize, args, i, book, chunks, pending,
                    insert_json, output, hist, input, resultVars, csvVars,
                    bulkVars, clusterVars >>

----------------------------------------------------------------------------
(* pull_update_push_async, lines 533-755.  A subset task is a coroutine    *)
(* that gives way at its two awaits, the retrieval and the write; the      *)
(* tasks take their steps in any order.  The write (_process_documents) is *)
(* taken by its result.                                                    *)

\* a subset task not yet run: its page_size and whether it reads by cursor;
\* at tells where the coroutine stands, state what its future holds
PendingTask(page_size, cursor) ==
    [ state |-> "pending", at |-> "start", page_size |-> page_size,
      cursor |-> cursor, docs |-> << >>, failed |-> << >> ]

\* lines 655-686: one task for the whole dataset when it fits in a page,
\* otherwise num_requests tasks, all but the first reading by cursor
SubsetTasks(n, size) ==
    IF size >= n
    THEN << PendingTask(n, FALSE) >>
    ELSE [ t \in 1..((n \div size) + 1) |->
             IF t = 1 THEN PendingTask(size, FALSE) ELSE PendingTask(0, TRUE) ]

\* the service's cursor: a call by cursor yields one of the pages after the
\* first, or nothing
CursorPages(ds, size) ==
    { Chunk(ds, size)[k] : k \in DOMAIN Chunk(ds, size) \ {1} } \cup { << >> }

\* lines 742-745: the failed documents of the tasks, in task order
RECURSIVE FailedOfTasks(_)
FailedOfTasks(ts) ==
    IF ts = << >> THEN << >>
    ELSE Head(ts).failed \o FailedOfTasks(Tail(ts))

\* lines 591-686: the check of update_function, the number of requests, the
\* cursor (one get_where call when the dataset does not fit in a page), the
\* tasks
PullUpdatePushAsync ==
    /\ pc = "async"
    /\ IF ~is_callable
       THEN /\ error' = "TypeError"
            /\ pc' = "raised"
            /\ UNCHANGED << tasks, retrievals >>
       ELSE /\ tasks' = SubsetTasks(Len(dataset), retrieve_chunk_size)
            /\ retrievals' = IF retrieve_chunk_size >= Len(dataset)
                             THEN retrievals ELSE retrievals + 1
            /\ pc' = "async_run"
            /\ UNCHANGED error
    /\ UNCHANGED << pupArgs, file_exists, log_deletes, chunk_failed,
                    retrieve_chunk_size, logged, iterations_required,
                    pup_iter, pup_retry, retrieved, failed_documents,
                    pup_output, transforms, writes, update_threw, pushed >>
    /\ UNCHANGED << documents, chunksize, args, i, book, chunks, pending,
                    insert_json, output, hist, input, resultVars, csvVars,
                    bulkVars, clusterVars >>

\* lines 624-631: a subset task starts; it makes its get_where_async call
\* and gives way
AsyncRetrieve(t) ==
    /\ pc = "async_run"
    /\ tasks[t].at = "start"
    /\ tasks' = [ tasks EXCEPT ![t].at = "retrieving" ]
    /\ retrievals' = retrievals + 1
    /\ UNCHANGED << pupArgs, file_exists, log_deletes, chunk_failed,
                    retrieve_chunk_size, logged,
                    iterations_required, pup_iter, pup_retry, retrieved,
                    failed_documents, pup_output, transforms, writes,
                    update_threw, pushed, error, pc >>
    /\ UNCHANGED << documents, chunksize, args, i, book, chunks, pending,
                    insert_json, output, hist, input, resultVars, csvVars,
                    bulkVars, clusterVars >>

\* lines 633-651: the task goes on with the documents retrieved.  An
\* exception of update_function is logged and the task returns None;
\* otherwise the write is called and the task gives way at the bulk_fn call
\* of _apply_bulk_fn, which an empty batch does not reach: its task returns
\* at once
AsyncUpdate(t) ==
    /\ pc = "async_run"
    /\ tasks[t].at = "retrieving"
    /\ \E docs \in (IF tasks[t].cursor
                     THEN CursorPages(dataset, retrieve_chunk_size)
                     ELSE { GetWhere(dataset, {}, tasks[t].page_size) }),
          throws \in BOOLEAN :
         IF throws
         THEN /\ tasks' = [ tasks EXCEPT ![t].state = "None",
                                         ![t].at = "end" ]
              /\ update_threw' = TRUE
              /\ UNCHANGED << transforms, writes, pushed >>
         ELSE /\ tasks' = IF docs = << >>
                          THEN [ tasks EXCEPT ![t].state = "done",
                                              ![t].at = "end" ]
                          ELSE [ tasks EXCEPT ![t].at = "writing",
                                              ![t].docs = docs ]
              /\ transforms' = transforms + 1
              /\ writes' = writes + 1
              /\ pushed' = pushed \cup Range(docs)
              /\ UNCHANGED update_threw
    /\ UNCHANGED << pupArgs, file_exists, log_deletes, chunk_failed,
                    retrieve_chunk_size, logged,
                    iterations_required, pup_iter, pup_retry, retrieved,
                    failed_documents, pup_output, retrievals, error, pc >>
    /\ UNCHANGED << documents, chunksize, args, i, book, chunks, pending,
                    insert_json, output, hist, input, resultVars, csvVars,
                    bulkVars, clusterVars >>

\* lines 644-653: the write has answered; the task returns its result and
\* the ids
AsyncWritten(t) ==
    /\ pc = "async_run"
    /\ tasks[t].at = "writing"
    /\ \E write_failed \in RemainingOf(tasks[t].docs) :
         tasks' = [ tasks EXCEPT ![t].state = "done",
                                 ![t].at = "end",
                                 ![t].docs = << >>,
                                 ![t].failed = write_failed ]
    /\ UNCHANGED << pupArgs, file_exists, log_deletes, chunk_failed,
                    retrieve_chunk_size, logged,
                    iterations_required, pup_iter, pup_retry, retrieved,
                    failed_documents, pup_output, pupHist, error, pc >>
    /\ UNCHANGED << documents, chunksize, args, i, book, chunks, pending,
                    insert_json, output, hist, input, resultVars, csvVars,
                    bulkVars, clusterVars >>

\* lines 737-755: every task has completed; the results are unpacked in task
\* order (unpacking the None of a task fails with TypeError) and the failed
\* documents returned
AsyncGather ==
    /\ pc = "async_run"
    /\ \A t \in DOMAIN tasks : tasks[t].state # "pending"
    /\ IF \E t \in DOMAIN tasks : tasks[t].state = "None"
       THEN /\ error' = "TypeError"
            /\ pc' = "raised"
            /\ UNCHANGED << failed_documents, pup_output >>
       ELSE /\ failed_documents' = FailedOfTasks(tasks)
            /\ pup_output' = PupDict(FailedOfTasks(tasks))
            /\ pc' = "returned"
            /\ UNCHANGED error
    /\ UNCHANGED << pupArgs, file_exists, log_deletes, chunk_failed,
                    retrieve_chunk_size, logged, iterations_required,
                    pup_iter, pup_retry, retrieved, tasks, pupHist >>
    /\ UNCHANGED << documents, chunksize, args, i, book, chunks, pending,
                    insert_json, output, hist, input, resultVars, csvVars,
                    bulkVars, clusterVars >>

----------------------------------------------------------------------------
(* _apply_bulk_fn, lines 1224-1266 *)

\* bulk_fn: the answers a call on the documents sent can give; it names the
\* ids it failed to write and counts the others
BulkResponses(sent) ==
    { [ inserted |-> Len(sent) - Cardinality(S), failed_documents |-> S ] :
        S \in SUBSET Range(sent) }

\* lines 1262-1265: the mapping returned after the loop
BulkOutput(ins, remaining) ==
    [ inserted |-> ins, failed_documents |-> remaining ]

\* lines 1247 and 1248: another bulk_fn call is made
BulkContinues(iter, retries, remaining) ==
    iter < retries /\ Len(remaining) > 0

\* lines 1236-1246: the return on an empty list, the counter and the copy of
\* the documents
ApplyBulkFn ==
    /\ pc = "bulk"
    /\ IF Len(documents) = 0
       THEN /\ bulk_output' = ZeroOutput
            /\ pc' = "returned"
            /\ UNCHANGED << num_documents_inserted, documents_remaining,
                            bulk_iter >>
       ELSE /\ num_documents_inserted' = 0
            /\ documents_remaining' = documents
            /\ bulk_iter' = 0
            /\ pc' = "bulk_loop"
            /\ UNCHANGED bulk_output
    /\ UNCHANGED << bulk_calls, bulk_sent, bulk_written >>
    /\ UNCHANGED << documents, chunksize, args, i, book, chunks, pending,
                    insert_json, output, error, hist, input, resultVars,
                    csvVars, pupVars, clusterVars >>

\* lines 1247-1250: bulk_fn is called on documents; the coroutine gives way
\* until the call has answered
BulkCall ==
    /\ pc = "bulk_loop"
    /\ BulkContinues(bulk_iter, number_of_retries, documents_remaining)
    /\ bulk_calls' = bulk_calls + 1
    /\ bulk_sent' = Range(documents)
    /\ pc' = "bulk_await"
    /\ UNCHANGED << documents_remaining, num_documents_inserted, bulk_iter,
                    bulk_output, bulk_written >>
    /\ UNCHANGED << documents, chunksize, args, i, book, chunks, pending,
                    insert_json, output, error, hist, input, resultVars,
                    csvVars, pupVars, clusterVars >>

\* lines 1250-1256: the call has answered; its inserted count is added and
\* documents_remaining narrowed to the ids it reports failed
BulkAnswer ==
    /\ pc = "bulk_await"
    /\ \E r \in BulkResponses(documents) :
         /\ num_documents_inserted' = num_documents_inserted + r.inserted
         /\ documents_remaining' =
                FilterIn(documents_remaining, r.failed_documents)
         /\ bulk_written' =
                bulk_written \cup (Range(documents) \ r.failed_documents)
    /\ pc' = "bulk_sleep"
    /\ UNCHANGED << bulk_iter, bulk_output, bulk_calls, bulk_sent >>
    /\ UNCHANGED << documents, chunksize, args, i, book, chunks, pending,
                    insert_json, output, error, hist, input, resultVars,
                    csvVars, pupVars, clusterVars >>

\* line 1261: time.sleep, then the next iteration of the for loop
BulkSleep ==
    /\ pc = "bulk_sleep"
    /\ bulk_iter' = bulk_iter + 1
    /\ pc' = "bulk_loop"
    /\ UNCHANGED << documents_remaining, num_documents_inserted, bulk_output,
                    bulk_calls, bulk_sent, bulk_written >>
    /\ UNCHANGED << documents, chunksize, args, i, book, chunks, pending,
                    insert_json, output, error, hist, input, resultVars,
                    csvVars, pupVars, clusterVars >>

\* lines 1257-1259 (break) or the end of the range, then lines 1263-1266
BulkReturn ==
    /\ pc = "bulk_loop"
    /\ ~BulkContinues(bulk_iter, number_of_retries, documents_remaining)
    /\ bulk_output' = BulkOutput(num_documents_inserted, documents_remaining)
    /\ pc' = "returned"
    /\ UNCHANGED << documents_remaining, num_documents_inserted, bulk_iter,
                    bulk_calls, bulk_sent, bulk_written >>
    /\ UNCHANGED << documents, chunksize, args, i, book, chunks, pending,
                    insert_json, output, error, hist, input, resultVars,
                    csvVars, pupVars, clusterVars >>

----------------------------------------------------------------------------
(* ClusterVizOps, src/relevanceai/operations/visualise/cluster.py: __init__, *)
(* _get_cluster_field_name and list_cluster_ids.                             *)

\* the vector_fields argument of the constructor
VectorFieldsValues == { << "a_vector_" >>, << "a_vector_", "b_vector_" >> }
\* the alias of the instance and of the call (NoCol: None)
AliasValues == { NoCol, "kmeans" }
AliasArgValues == { NoCol, "other" }
\* minimum_cluster_size (default 3) and num_clusters
MinimumClusterSizes == { 3 }
NumClustersValues == { 1, 3 }
\* the cluster ids and the frequencies the service reports
ClusterIds == { 1, 2 }
Frequencies == { 1, 5 }

NoVectorFields == [ type |-> "none", value |-> << >> ]
NoClusterOutput == [ kind |-> "unset", ids |-> {} ]
NoFacetResults == [ kind |-> "unset", facets |-> << >> ]

\* lines 28-30: self.vector_fields = (vector_fields,), a tuple of one element
NewVectorFields(fields) == [ type |-> "tuple", value |-> << fields >> ]

\* self.vector_fields = [...]: the attribute assigned a list
ListVectorFields(fields) == [ type |-> "list", value |-> fields ]

\* sep.join(parts)
RECURSIVE Join(_, _)
Join(sep, parts) ==
    IF parts = << >> THEN ""
    ELSE IF Len(parts) = 1 THEN parts[1]
    ELSE parts[1] \o sep \o Join(sep, Tail(parts))

\* lines 200-207: the name for a list; for any type other than list and str
\* no branch assigns set_cluster_field and the return fails
\* (UnboundLocalError).  The str branch reads self.cluster_field, which no
\* code of this class sets, and is left out.  An alias None is formatted as
\* "None".
GetClusterFieldName(fields, inst_alias, arg) ==
    IF fields.type = "list"
    THEN [ ok |-> TRUE,
           name |-> "_cluster_." \o Join(".", fields.value) \o "."
                      \o (IF arg = NoCol THEN inst_alias ELSE arg) ]
    ELSE [ ok |-> FALSE, name |-> "" ]

\* the service's facets: the field is missing from the response, or it has a
\* list of at most two facets
FacetResponses ==
    { [ kind |-> "missing", facets |-> << >> ] }
    \cup
    { [ kind |-> "facets", facets |-> f ] :
        f \in UNION { [ 1..n -> [ id : ClusterIds, frequency : Frequencies ] ] :
                        n \in 0..2 } }

\* lines 268-274: the loop over the facets of one response; ids of facets
\* above the minimum are added, and the call returns at the first id that
\* was there already
RECURSIVE ProcessFacets(_, _, _)
ProcessFacets(ids, facets, minimum) ==
    IF facets = << >> THEN [ ids |-> ids, returned |-> FALSE ]
    ELSE IF Head(facets).frequency > minimum
         THEN IF Head(facets).id \in ids
              THEN [ ids |-> ids, returned |-> TRUE ]
              ELSE ProcessFacets(ids \cup {Head(facets).id}, Tail(facets),
                                 minimum)
         ELSE ProcessFacets(ids, Tail(facets), minimum)

\* the caller assigns the attribute a list after construction
AssignVectorFields ==
    /\ pc = "constructed"
    /\ vector_fields.type = "tuple"
    /\ vector_fields' = ListVectorFields(vector_fields.value[1])
    /\ UNCHANGED << clusterArgs, called, cluster_field, all_cluster_ids,
                    facet_results, cluster_output >>
    /\ UNCHANGED << writeVars, resultVars, csvVars, pupVars, bulkVars >>

\* a call of _get_cluster_field_name(alias), lines 200-207
CallGetClusterFieldName ==
    /\ pc = "constructed"
    /\ called' = "_get_cluster_field_name"
    /\ LET r == GetClusterFieldName(vector_fields, alias, alias_arg)
       IN IF r.ok
          THEN /\ cluster_field' = r.name
               /\ pc' = "returned"
               /\ UNCHANGED error
          ELSE /\ error' = "UnboundLocalError"
               /\ pc' = "raised"
               /\ UNCHANGED cluster_field
    /\ UNCHANGED << vector_fields, clusterArgs, all_cluster_ids, facet_results,
                    cluster_output >>
    /\ UNCHANGED << documents, chunksize, args, i, book, chunks, pending,
                    insert_json, output, hist, input, resultVars, csvVars,
                    pupVars, bulkVars >>

\* lines 245-254 of list_cluster_ids: the field name and the empty set
ListClusterIds ==
    /\ pc = "constructed"
    /\ called' = "list_cluster_ids"
    /\ LET r == GetClusterFieldName(vector_fields, alias, alias_arg)
       IN IF r.ok
          THEN /\ cluster_field' = r.name
               /\ all_cluster_ids' = {}
               /\ pc' = "cluster_loop"
               /\ UNCHANGED error
          ELSE /\ error' = "UnboundLocalError"
               /\ pc' = "raised"
               /\ UNCHANGED << cluster_field, all_cluster_ids >>
    /\ UNCHANGED << vector_fields, clusterArgs, facet_results, cluster_output >>
    /\ UNCHANGED << documents, chunksize, args, i, book, chunks, pending,
                    insert_json, output, hist, input, resultVars, csvVars,
                    pupVars, bulkVars >>

\* lines 256-274: one iteration of the while loop: page 1 of the facets is
\* requested and its facets are gone through
ClusterFacets ==
    /\ pc = "cluster_loop"
    /\ Cardinality(all_cluster_ids) < num_clusters
    /\ \E resp \in FacetResponses :
         /\ facet_results' = resp
         /\ IF resp.kind = "missing"
            THEN /\ error' = "MissingClusterError"
                 /\ pc' = "raised"
                 /\ UNCHANGED << all_cluster_ids, cluster_output >>
            ELSE LET r == ProcessFacets(all_cluster_ids, resp.facets,
                                        minimum_cluster_size)
                 IN /\ all_cluster_ids' = r.ids
                    /\ IF r.returned
                       THEN /\ cluster_output' =
                                 [ kind |-> "list", ids |-> r.ids ]
                            /\ pc' = "returned"
                       ELSE UNCHANGED << cluster_output, pc >>
                    /\ UNCHANGED error
    /\ UNCHANGED << vector_fields, clusterArgs, called, cluster_field >>
    /\ UNCHANGED << documents, chunksize, args, i, book, chunks, pending,
                    insert_json, output, hist, input, resultVars, csvVars,
                    pupVars, bulkVars >>

\* line 276: the while loop is left, the ids are returned
ClusterReturn ==
    /\ pc = "cluster_loop"
    /\ Cardinality(all_cluster_ids) >= num_clusters
    /\ cluster_output' = [ kind |-> "list", ids |-> all_cluster_ids ]
    /\ pc' = "returned"
    /\ UNCHANGED << vector_fields, clusterArgs, called, cluster_field,
                    all_cluster_ids, facet_results >>
    /\ UNCHANGED << documents, chunksize, args, i, book, chunks, pending,
                    insert_json, output, error, hist, input, resultVars,
                    csvVars, pupVars, bulkVars >>

----------------------------------------------------------------------------
(* Specifications *)

InitCall ==
    /\ i = 0
    /\ inserted = 0
    /\ failed_ids = << >>
    /\ failed_ids_detailed = << >>
    /\ cancelled_ids = << >>
    /\ chunks = << >>
    /\ pending = {}
    /\ insert_json = << >>
    /\ output = NoOutput
    /\ error = "none"
    /\ input = {}
    /\ written = {}
    /\ givenUp = {}
    /\ retrySet = {}
    /\ passes = 0
    /\ calls = 0
    /\ sleeps = 0
    /\ allTransient = TRUE
    /\ allOverload = TRUE
    /\ threw = FALSE
    /\ usedSize = 0
    /\ prevSize = 0
    /\ lastOverload = FALSE
    /\ listed = {}

\* no call of _process_insert_results
IdleResults ==
    /\ results = NoResults
    /\ return_json = FALSE
    /\ response = None

\* no call of _insert_csv_chunk
IdleCsv ==
    /\ csv_chunk = NoChunk
    /\ col_for_id = NoCol
    /\ auto_generate_id = FALSE
    /\ given = NoChunk

\* no call of a pull-update-push function
IdlePup ==
    /\ variant = "none"
    /\ is_callable = TRUE
    /\ logging_dataset_id = "None"
    /\ file_exists = FALSE
    /\ log_deletes = 0
    /\ chunk_failed = << >>
    /\ dataset = << >>
    /\ number_of_retrieve_retries = 0
    /\ max_error = 0
    /\ retrieve_multiplier = [ num |-> 1, den |-> 2 ]
    /\ retrieve_chunk_size = 1
    /\ logged = {}
    /\ iterations_required = 0
    /\ pup_iter = 0
    /\ pup_retry = 0
    /\ retrieved = << >>
    /\ failed_documents = << >>
    /\ tasks = << >>
    /\ pup_output = NoPupOutput
    /\ retrievals = 0
    /\ transforms = 0
    /\ writes = 0
    /\ update_threw = FALSE
    /\ pushed = {}
    /\ checkpoint = {}

\* no call of _apply_bulk_fn
IdleBulk ==
    /\ documents_remaining = << >>
    /\ num_documents_inserted = 0
    /\ bulk_iter = 0
    /\ bulk_output = NoOutput
    /\ bulk_calls = 0
    /\ bulk_sent = {}
    /\ bulk_written = {}

\* no ClusterVizOps instance
IdleCluster ==
    /\ vector_fields = NoVectorFields
    /\ alias = NoCol
    /\ alias_arg = NoCol
    /\ minimum_cluster_size = 0
    /\ num_clusters = 0
    /\ called = "none"
    /\ cluster_field = ""
    /\ all_cluster_ids = {}
    /\ facet_results = NoFacetResults
    /\ cluster_output = NoClusterOutput

\* no call of the write pipeline
IdleWrite ==
    /\ documents = << >>
    /\ chunksize = 0
    /\ retry_chunk_mult = [ num |-> 1, den |-> 2 ]
    /\ max_workers = 1
    /\ number_of_retries = 0
    /\ create_id = FALSE
    /\ InitCall

\* _write_documents called with documents that all carry distinct ids
Init ==
    /\ pc = "start"
    /\ documents \in { [ k \in 1..n |-> k ] : n \in 0..MaxDocs }
    /\ chunksize \in 0..(MaxDocs + 1)
    /\ retry_chunk_mult \in RetryChunkMults
    /\ max_workers \in MaxWorkersValues
    /\ number_of_retries \in 0..MaxRetries
    /\ create_id = FALSE
    /\ InitCall
    /\ IdleResults
    /\ IdleCsv
    /\ IdlePup
    /\ IdleBulk
    /\ IdleCluster

Next ==
    \/ WriteDocuments
    \/ Dispatch
    \/ \E k \in pending : Complete(k)
    \/ Collect
    \/ Sleep
    \/ Return

Spec == Init /\ [][Next]_vars

\* _insert_documents called with its default chunksize and retry_chunk_mult
\* and a single worker; a document carries its position as id, or none
InitInsert ==
    /\ pc = "insert"
    /\ documents \in UNION { { [ k \in 1..n |-> IF k \in S THEN NoId ELSE k ] :
                                 S \in SUBSET (1..n) } : n \in 0..MaxDocs }
    /\ chunksize = 0
    /\ retry_chunk_mult = [ num |-> 1, den |-> 2 ]
    /\ max_workers = 1
    /\ number_of_retries \in 0..MaxRetries
    /\ create_id \in BOOLEAN
    /\ InitCall
    /\ IdleResults
    /\ IdleCsv
    /\ IdlePup
    /\ IdleBulk
    /\ IdleCluster

NextInsert ==
    \/ InsertDocuments
    \/ Next

SpecInsert == InitInsert /\ [][NextInsert]_vars

\* _insert_documents or _update_documents called as in InitInsert
InitIds ==
    /\ pc \in {"insert", "update"}
    /\ documents \in UNION { { [ k \in 1..n |-> IF k \in S THEN NoId ELSE k ] :
                                 S \in SUBSET (1..n) } : n \in 0..MaxDocs }
    /\ chunksize = 0
    /\ retry_chunk_mult = [ num |-> 1, den |-> 2 ]
    /\ max_workers = 1
    /\ number_of_retries \in 0..MaxRetries
    /\ create_id \in BOOLEAN
    /\ InitCall
    /\ IdleResults
    /\ IdleCsv
    /\ IdlePup
    /\ IdleBulk
    /\ IdleCluster

NextIds ==
    \/ InsertDocuments
    \/ UpdateDocuments
    \/ Next

SpecIds == InitIds /\ [][NextIds]_vars

\* _process_insert_results called on a results mapping
InitResults ==
    /\ pc = "results"
    /\ results \in ResultsValues
    /\ return_json \in BOOLEAN
    /\ response = None
    /\ IdleWrite
    /\ IdleCsv
    /\ IdlePup
    /\ IdleBulk
    /\ IdleCluster

NextResults == ProcessResults

SpecResults == InitResults /\ [][NextResults]_vars

\* _insert_csv_chunk called on a DataFrame, with one worker, the default
\* retry_chunk_mult and one configured retry
InitCsv ==
    /\ pc = "csv"
    /\ csv_chunk \in CsvChunks
    /\ given = csv_chunk
    /\ col_for_id \in ColForIdValues
    /\ auto_generate_id \in BOOLEAN
    /\ documents = << >>
    /\ chunksize = 0
    /\ retry_chunk_mult = [ num |-> 1, den |-> 2 ]
    /\ max_workers = 1
    /\ number_of_retries = 1
    /\ create_id = FALSE
    /\ InitCall
    /\ IdleResults
    /\ IdlePup
    /\ IdleBulk
    /\ IdleCluster

NextCsv ==
    \/ InsertCsvChunk
    \/ InsertDocuments
    \/ Next

SpecCsv == InitCsv /\ [][NextCsv]_vars

\* one of the three pull-update-push functions called on a dataset, with a
\* checkpoint (file or logging collection) that may hold ids of an earlier
\* run; the retry arguments belong to the cloud variant
InitPup ==
    /\ variant \in {"sync", "async", "cloud"}
    /\ pc = (IF variant = "sync" THEN "pup" ELSE variant)
    /\ is_callable \in BOOLEAN
    /\ dataset \in { [ k \in 1..n |-> k ] : n \in 0..MaxDocs }
    /\ retrieve_chunk_size \in RetrieveChunkSizes
    /\ logged \in (IF variant = "async" THEN { {} } ELSE SUBSET Range(dataset))
    /\ file_exists \in (IF variant # "sync" THEN {FALSE}
                        ELSE IF logged # {} THEN {TRUE}
                        ELSE BOOLEAN)
    /\ logging_dataset_id \in
          (IF variant = "cloud" THEN LoggingDatasetIds ELSE {"None"})
    /\ log_deletes = 0
    /\ chunk_failed = << >>
    /\ number_of_retrieve_retries \in
          (IF variant = "cloud" THEN 0..MaxRetries ELSE {0})
    /\ max_error \in (IF variant = "cloud" THEN MaxErrorValues ELSE {0})
    /\ retrieve_multiplier \in RetrieveMultipliers
    /\ iterations_required = 0
    /\ pup_iter = 0
    /\ pup_retry = 0
    /\ retrieved = << >>
    /\ failed_documents = << >>
    /\ tasks = << >>
    /\ pup_output = NoPupOutput
    /\ retrievals = 0
    /\ transforms = 0
    /\ writes = 0
    /\ update_threw = FALSE
    /\ pushed = {}
    /\ checkpoint = logged
    /\ IdleWrite
    /\ IdleResults
    /\ IdleCsv
    /\ IdleBulk
    /\ IdleCluster

NextPup ==
    \/ PullUpdatePush
    \/ PupRetrieve
    \/ PupUpdate
    \/ PupWrite
    \/ PupReturn
    \/ PullUpdatePushAsync
    \/ \E t \in DOMAIN tasks : AsyncRetrieve(t)
    \/ \E t \in DOMAIN tasks : AsyncUpdate(t)
    \/ \E t \in DOMAIN tasks : AsyncWritten(t)
    \/ AsyncGather
    \/ PullUpdatePushToCloud
    \/ CloudRetry
    \/ CloudRetrieve
    \/ CloudLoopEnd
    \/ CloudUpdate
    \/ CloudWrite
    \/ CloudWritten
    \/ CloudUploaded
    \/ CloudSleep
    \/ DeletePullUpdatePushLogs

SpecPup == InitPup /\ [][NextPup]_vars

\* _apply_bulk_fn called on a list of documents with distinct ids
InitBulk ==
    /\ pc = "bulk"
    /\ documents \in { [ k \in 1..n |-> k ] : n \in 0..MaxDocs }
    /\ chunksize = 0
    /\ retry_chunk_mult = [ num |-> 1, den |-> 2 ]
    /\ max_workers = 1
    /\ number_of_retries \in 0..MaxRetries
    /\ create_id = FALSE
    /\ InitCall
    /\ IdleResults
    /\ IdleCsv
    /\ IdlePup
    /\ IdleBulk
    /\ IdleCluster

NextBulk ==
    \/ ApplyBulkFn
    \/ BulkCall
    \/ BulkAnswer
    \/ BulkSleep
    \/ BulkReturn

SpecBulk == InitBulk /\ [][NextBulk]_vars

\* a ClusterVizOps instance as its constructor leaves it, and the arguments
\* of the call made on it
InitCluster ==
    /\ pc = "constructed"
    /\ vector_fields \in { NewVectorFields(f) : f \in VectorFieldsValues }
    /\ alias \in AliasValues
    /\ alias_arg \in AliasArgValues
    /\ minimum_cluster_size \in MinimumClusterSizes
    /\ num_clusters \in NumClustersValues
    /\ called = "none"
    /\ cluster_field = ""
    /\ all_cluster_ids = {}
    /\ facet_results = NoFacetResults
    /\ cluster_output = NoClusterOutput
    /\ IdleWrite
    /\ IdleResults
    /\ IdleCsv
    /\ IdlePup
    /\ IdleBulk

NextCluster ==
    \/ AssignVectorFields
    \/ CallGetClusterFieldName
    \/ ListClusterIds
    \/ ClusterFacets
    \/ ClusterReturn

SpecCluster == InitCluster /\ [][NextCluster]_vars

----------------------------------------------------------------------------
(* Properties *)

Returned == pc = "returned"

\* ids of the documents submitted in the pass in flight
Sent == UNION { Range(chunks[k]) : k \in DOMAIN chunks }

\* C1: at return of a call on a non-empty list of documents with distinct
\* ids, every input id is either counted in inserted or listed exactly once
\* in failed_documents: inserted + len(failed_documents) is the number of
\* input documents, failed_documents has no duplicate and holds no id that
\* was written.
C1_EveryIdAccountedOnce ==
    (Returned /\ input # {}) =>
        /\ output.inserted + Len(output.failed_documents) = Cardinality(input)
        /\ NoDuplicates(output.failed_documents)
        /\ Range(output.failed_documents) \cap written = {}
        /\ Range(output.failed_documents) \cup written = input
        /\ output.inserted = Cardinality(written)

\* a call returned with a written id, a cancelled id and an id left over from
\* the last permitted pass
C1_Witness ==
    /\ Returned
    /\ written # {}
    /\ givenUp # {}
    /\ Range(failed_ids) # {}
    /\ passes >= 2

\* C2: a document of a chunk answered 400/404 is in no chunk of a later pass,
\* and its id is in the returned failed_documents.
C2_GivenUpNeverResent ==
    /\ pc = "inflight" => Sent \cap givenUp = {}
    /\ Returned => givenUp \subseteq Range(output.failed_documents)

\* a pass is in flight after a chunk of an earlier pass was answered 400/404
C2_Witness ==
    /\ pc = "inflight"
    /\ givenUp # {}
    /\ Sent # {}

\* C3: the documents submitted in a pass were in the retry set at the end of
\* the pass before, and a written document is never submitted again.
C3_OnlyRetrySetResent ==
    pc = "inflight" =>
        /\ Sent \subseteq retrySet
        /\ Sent \cap written = {}

\* a second pass is in flight after some document was written in the first
C3_Witness ==
    /\ pc = "inflight"
    /\ passes >= 2
    /\ written # {}
    /\ Sent # {}

\* C4: when every transport answer of the call is of the "other" class, the
\* call returns inserted = 0 and all input ids as failed_documents, for every
\* retry bound including 0, and it does not raise.
C4_AllTransientAllFailed ==
    (allTransient /\ input # {}) =>
        /\ pc # "raised"
        /\ Returned =>
             /\ output.inserted = 0
             /\ Range(output.failed_documents) = input
             /\ Len(output.failed_documents) = Cardinality(input)

\* a call of several documents returned after two passes of "other" answers
C4_Witness ==
    /\ Returned
    /\ allTransient
    /\ passes >= 2
    /\ calls >= 2 * Cardinality(input)
    /\ Cardinality(input) >= 2

\* C5: the chunk size of a pass is at most the chunk size of the pass before,
\* and differs from it only when the pass before had a 413/524 chunk.
C5_ChunksizeOnlyShrinksOnOverload ==
    (pc = "inflight" /\ prevSize # 0) =>
        /\ usedSize <= prevSize
        /\ usedSize # prevSize => lastOverload

\* a pass runs with a smaller chunk size than the pass before
C5_Witness ==
    /\ pc = "inflight"
    /\ prevSize # 0
    /\ usedSize < prevSize

\* C6: once a pass has ended with an empty retry set, no pass is submitted
\* and no transport call is made, even when retry iterations remain.
C6_NoCallAfterEmptyRetrySet ==
    [][ (passes >= 1 /\ pc # "inflight" /\ retrySet = {}) =>
          (passes' = passes /\ calls' = calls /\ pc' # "inflight") ]_vars

\* a call whose first pass wrote every document returned after that one pass
\* although more iterations were allowed
C6_Witness ==
    /\ Returned
    /\ passes = 1
    /\ written = input
    /\ input # {}
    /\ number_of_retries >= 2

\* C7: _write_documents on a non-empty input never raises.
C7_NeverRaises == pc # "raised"

\* C8: when the transport call of a chunk raises, the call still returns a
\* result: it never ends with an exception after a pass in which a chunk write
\* raised.
C8_ThrowStillReturns == ~(pc = "raised" /\ threw)

\* C9: a call with an empty document list returns the zero result at once,
\* without a transport call and without sleeping.
C9_EmptyInputZeroOutput ==
    (pc # "start" /\ input = {}) =>
        /\ Returned
        /\ output = ZeroOutput
        /\ passes = 0
        /\ calls = 0
        /\ sleeps = 0

\* the call on an empty list has returned
C9_Witness ==
    /\ Returned
    /\ Len(documents) = 0
    /\ input = {}
    /\ output = ZeroOutput

\* C10: inserting documents of which one lacks "_id" with create_id disabled
\* fails with MissingFieldError and no chunk write is made.
C10_MissingIdRaises ==
    /\ (pc # "insert" /\ (\E k \in 1..Len(documents) : documents[k] = NoId)
          /\ ~create_id)
         => (pc = "raised" /\ error = "MissingFieldError")
    /\ error = "MissingFieldError" => (pc = "raised" /\ passes = 0 /\ calls = 0)

\* the insert of several documents, one without "_id", has failed
C10_Witness ==
    /\ pc = "raised"
    /\ error = "MissingFieldError"
    /\ Len(documents) >= 2
    /\ \E k \in 1..Len(documents) : documents[k] # NoId
    /\ \E k \in 1..Len(documents) : documents[k] = NoId

\* C11: in _insert_documents and _update_documents the ids are assigned before
\* the first transport call: every document submitted in a pass carries an
\* id, a document gets a generated id only in the conversion step (no pass
\* dispatched, no call made), and from then on the documents of the call are
\* only narrowed, so a document is sent under the same id in every pass.
C11_IdsAssignedBeforeFirstPass ==
    /\ [](pc = "inflight" => (NoId \notin Sent /\ Sent \subseteq input))
    /\ [](pc \notin {"insert", "update", "raised"} => NoId \notin Range(documents))
    /\ [][ IF pc \in {"insert", "update"}
           THEN passes = 0 /\ calls = 0 /\ passes' = 0 /\ calls' = 0
           ELSE Range(documents') \subseteq Range(documents) ]_vars

\* a document that got a generated id is sent again in a second pass
C11_Witness ==
    /\ pc = "inflight"
    /\ passes >= 2
    /\ create_id
    /\ \E d \in Sent : d > MaxDocs
    /\ \E d \in Sent : d <= MaxDocs

\* C12: passes never overlap.  While a pass runs, every chunk of it is either
\* still pending or has its result collected; chunk writes are pending only
\* during a pass; and the documents, the chunk size, the retry set, the
\* cancelled ids and the pass count change only when no chunk write is
\* pending, whatever the order in which the chunk writes complete.
C12_PassesNeverOverlap ==
    /\ [](pc = "inflight" => Len(insert_json) + Cardinality(pending) = Len(chunks))
    /\ [](pc # "inflight" => pending = {})
    /\ [][ (documents' # documents \/ chunksize' # chunksize
              \/ retrySet' # retrySet \/ cancelled_ids' # cancelled_ids
              \/ passes' # passes)
           => pending = {} ]_vars

\* in a second pass run by two workers the second chunk has completed before
\* the first, which is still in flight
C12_Witness ==
    /\ pc = "inflight"
    /\ passes >= 2
    /\ max_workers = 2
    /\ Len(chunks) >= 2
    /\ pending = {1}
    /\ Len(insert_json) >= 1
    /\ insert_json[1].documents = chunks[2]

\* C13: the call runs at most number_of_retries passes, and when it is over
\* it is over by returning its result.
C13_AtMostMaxRetriesThenReturns ==
    /\ passes <= number_of_retries
    /\ pc \notin {"start", "loop", "inflight", "sleep"} => Returned

\* C14: the bookkeeping of a pass is the one of the four status classes: the
\* failed list is exactly the retry set of the classes (ids a 200 answer
\* lists as failed, ids of 413/524 chunks, ids of chunks with any other
\* status), each id once; the cancelled list is exactly the ids of 400/404
\* chunks; inserted counts the ids written by 200 answers; and the chunk size
\* was reduced exactly when the pass had a 413/524 chunk.
C14_FourStatusClasses ==
    pc = "sleep" =>
        /\ Range(failed_ids) = retrySet
        /\ Len(failed_ids) = Cardinality(retrySet)
        /\ Range(cancelled_ids) = givenUp
        /\ Len(cancelled_ids) = Cardinality(givenUp)
        /\ inserted = Cardinality(written)
        /\ (chunksize < usedSize) <=> lastOverload
        /\ chunksize <= usedSize

\* the call has seen all four classes: its first pass had a 413/524 chunk,
\* its second pass a chunk of another status, and by then documents have been
\* written by a 200 answer and cancelled by a 400/404 answer
C14_Witness ==
    /\ pc = "sleep"
    /\ passes = 2
    /\ usedSize < prevSize
    /\ ~lastOverload
    /\ written # {}
    /\ givenUp # {}
    /\ retrySet # {}
    /\ failed_ids_detailed = << >>

\* C15: in a call on several documents whose only pass had exactly one chunk
\* answered 400/404 (the chunk of the one rejected document) and every other
\* chunk written in full, one id only is in failed_documents and all the
\* other documents are counted as inserted.  The pass cut the input
\* 1..n into chunks of usedSize documents.
C15_OneGiveUpOthersWritten ==
    ( /\ Returned
      /\ passes = 1
      /\ Cardinality(input) >= 2
      /\ written \cup givenUp = input
      /\ \E k \in DOMAIN Chunk([ d \in 1..Cardinality(input) |-> d ], usedSize) :
            givenUp = Range(Chunk([ d \in 1..Cardinality(input) |-> d ], usedSize)[k]) )
    => /\ Len(output.failed_documents) = 1
       /\ output.inserted = Cardinality(input) - 1
       /\ Cardinality(written) = Cardinality(input) - 1

\* C16: when every transport answer of the call is 413/524, the call does not
\* raise, the chunk size of a pass is at most the one of the pass before, and
\* the call returns after number_of_retries passes with inserted = 0 and all
\* input ids as failed_documents.
C16_AllOverloadAllFailed ==
    (allOverload /\ input # {}) =>
        /\ pc # "raised"
        /\ (pc = "inflight" /\ prevSize # 0) => usedSize <= prevSize
        /\ Returned =>
             /\ passes = number_of_retries
             /\ output.inserted = 0
             /\ Range(output.failed_documents) = input
             /\ Len(output.failed_documents) = Cardinality(input)

\* C17: _process_insert_results hands back None exactly when the results list
\* no failed document under failed_documents or failed_document_ids and
\* return_json is false, and otherwise hands back the results unchanged; so
\* the results of a write with every document written give None.
C17_NoneIffNothingFailed ==
    pc = "processed" =>
        /\ response = None <=>
              /\ ~return_json
              /\ "failed_documents" \in DOMAIN results
                    => results.failed_documents = << >>
              /\ "failed_document_ids" \in DOMAIN results
                    => results.failed_document_ids = << >>
        /\ response # None => response = << results >>
        /\ ( /\ ~return_json
             /\ \E n \in 1..MaxDocs : results = Output(n, << >>, << >>, << >>) )
              => response = None

\* the results of a write of several documents, all written, were processed
\* without return_json
C17_Witness ==
    /\ pc = "processed"
    /\ ~return_json
    /\ results = Output(MaxDocs, << >>, << >>, << >>)
    /\ response = None

\* the ids _insert_csv_chunk has to give the rows of the DataFrame it was
\* passed: an existing "_id" column, else the column col_for_id when the
\* frame has it, else generated ids when auto_generate_id is set, else none
\* (the empty list)
C18_ExpectedIds ==
    IF "_id" \in DOMAIN given.columns THEN given.columns["_id"]
    ELSE IF col_for_id # NoCol /\ col_for_id \in DOMAIN given.columns
         THEN given.columns[col_for_id]
    ELSE IF auto_generate_id THEN Uuids(given.index)
    ELSE << >>

\* what evaluating the columns of vectors of the DataFrame raises
C18_VectorsRaise == EvalColumns(given, VectorColumns(given)).raises

\* C18: _insert_csv_chunk keeps an existing "_id" column; without one the
\* ids are the column col_for_id when the frame has it, otherwise generated
\* ids when auto_generate_id is set; otherwise it raises MissingFieldError
\* and no document of the chunk has been sent.  The documents handed on and
\* sent carry exactly these ids; a frame whose columns of vectors do not
\* evaluate has these ids too and is not sent.
C18_CsvIdColumn ==
    pc # "csv" =>
        IF C18_ExpectedIds = << >>
        THEN /\ pc = "raised"
             /\ error = "MissingFieldError"
             /\ passes = 0
             /\ calls = 0
             /\ input = {}
        ELSE /\ error # "MissingFieldError"
             /\ csv_chunk.columns["_id"] = C18_ExpectedIds
             /\ IF C18_VectorsRaise # "None"
                THEN /\ pc = "raised"
                     /\ error = C18_VectorsRaise
                     /\ calls = 0
                     /\ input = {}
                ELSE /\ pc = "insert" => documents = C18_ExpectedIds
                     /\ pc \notin {"insert", "start"} =>
                            input = Range(C18_ExpectedIds)
                     /\ pc = "inflight" =>
                            Sent \subseteq Range(C18_ExpectedIds)

\* a frame of several rows without "_id", whose col_for_id names a column it
\* lacks, is being sent with generated ids
C18_Witness ==
    /\ pc = "inflight"
    /\ given.index >= 2
    /\ "_id" \notin DOMAIN given.columns
    /\ "key" \in DOMAIN given.columns
    /\ col_for_id = "other"
    /\ auto_generate_id
    /\ Sent = Range(Uuids(given.index))

\* C19: a pull-update-push function called with an update_function that is
\* not callable retrieves, transforms and writes nothing, and when the call
\* is over it has raised TypeError.
C19_NonCallableRaisesFirst ==
    ~is_callable =>
        /\ retrievals = 0
        /\ transforms = 0
        /\ writes = 0
        /\ pc \in {"returned", "raised"} => (pc = "raised" /\ error = "TypeError")

\* C20: in pull_update_push and pull_update_push_to_cloud, once
\* update_function has thrown the run is over: it has returned (None) without
\* an exception, the batch it threw on is the last one retrieved, and every
\* write made belongs to a batch transformed before.
C20_UpdateThrowAborts ==
    (variant \in {"sync", "cloud"} /\ update_threw) =>
        /\ pc = "returned"
        /\ pup_output = PupNone
        /\ error = "none"
        /\ writes = transforms
        /\ retrievals = transforms + 1

\* the cloud variant ended on a throw of a callable update_function after an
\* earlier batch had been transformed and written
C20_Witness ==
    /\ variant = "cloud"
    /\ is_callable
    /\ update_threw
    /\ writes >= 1
    /\ retrievals >= 2
    /\ pc = "returned"

\* C21: a pull_update_push run that finds ids in its checkpoint file
\* retrieves, transforms and writes none of them: no batch retrieved and no
\* batch written holds an id the checkpoint had when the call began.
C21_CheckpointedIdsSkipped ==
    variant = "sync" =>
        /\ pc \in {"pup_update", "pup_write"} =>
               Range(retrieved) \cap checkpoint = {}
        /\ pushed \cap checkpoint = {}

\* C22: when pull_update_push on a dataset larger than retrieve_chunk_size,
\* started without a checkpoint, has returned and neither update_function
\* nor a write has failed, every id of the dataset has been handed to the
\* write.
C22_EveryDocumentProcessed ==
    ( /\ variant = "sync"
      /\ checkpoint = {}
      /\ Len(dataset) > retrieve_chunk_size
      /\ pc = "returned"
      /\ pup_output = PupDict(<< >>) )
    => pushed = Range(dataset)

\* C23: once the failed documents of pull_update_push_to_cloud number more
\* than max_error, no further batch is retrieved, transformed or written.
C23_StopsWhenMaxErrorExceeded ==
    [][ (variant = "cloud" /\ Len(failed_documents) > max_error) =>
            /\ retrievals' = retrievals
            /\ transforms' = transforms
            /\ writes' = writes ]_vars

\* C24: the chunk size _write_documents settles on when it is called with
\* chunksize = 0 is at least 1 and at most the number of input documents.
C24_AutoChunksizeWithinInput ==
    (pc = "loop" /\ passes = 0) =>
        /\ chunksize >= 1
        /\ chunksize <= Len(documents)

\* C25: _write_documents sleeps only between two passes: whenever it sleeps,
\* the pass just run has left a non-empty retry set and a further pass is
\* permitted.
C25_SleepsOnlyBetweenPasses ==
    [][ sleeps' # sleeps =>
            /\ failed_ids # << >>
            /\ i + 1 < number_of_retries ]_vars

\* the inserted counts of the answers numbered in S, added up
RECURSIVE InsertedSum(_, _)
InsertedSum(S, answers) ==
    IF S = {} THEN 0
    ELSE LET k == CHOOSE j \in S : TRUE
         IN answers[k].inserted + InsertedSum(S \ {k}, answers)

\* C26: when the results of a pass are collected, the ids of the documents
\* of 200 answers that are in the retry set are exactly the ids those
\* answers list as failed, the detailed failure list holds exactly these
\* ids, and the running total grows by the inserted counts of the 200
\* answers; the ids of the detailed failure list are sent in the pass that
\* follows.
C26_SuccessChunkBookkeeping ==
    [][ /\ (pc = "inflight" /\ pc' = "sleep") =>
              /\ Range(failed_ids') \cap
                     (DocsOf(insert_json, "Success")
                        \ (DocsOf(insert_json, "Overload")
                             \cup DocsOf(insert_json, "Transient")))
                   = ListedFailed(insert_json)
                        \ (DocsOf(insert_json, "Overload")
                             \cup DocsOf(insert_json, "Transient"))
              /\ ListedFailed(insert_json) \subseteq Range(failed_ids')
              /\ Range(failed_ids_detailed') = ListedFailed(insert_json)
              /\ inserted' = inserted
                   + InsertedSum(ResultsOf(insert_json, "Success"), insert_json)
        /\ (pc = "loop" /\ pc' = "inflight") =>
              Range(failed_ids_detailed) \subseteq Sent' ]_vars

\* the single chunk of the first pass was answered 200 with some documents
\* written and some listed as failed, and the listed ones are in flight again
C26_Witness ==
    /\ pc = "inflight"
    /\ passes = 2
    /\ prevSize >= Cardinality(input)
    /\ inserted >= 1
    /\ written # {}
    /\ Sent # {}
    /\ Sent = retrySet

\* C27: when the results of a pass with a 413/524 answer are collected,
\* every document of the chunks so answered is in the retry set, and the
\* chunk size for the pass that follows is the chunk size of the pass reduced
\* once by retry_chunk_mult.
C27_OverloadRetriedAtReducedSize ==
    [][ ( /\ pc = "inflight"
          /\ pc' = "sleep"
          /\ ResultsOf(insert_json, "Overload") # {} ) =>
            /\ DocsOf(insert_json, "Overload") \subseteq Range(failed_ids')
            /\ chunksize' = ShrinkChunksize(chunksize, retry_chunk_mult) ]_vars

\* the sequences of a sequence, concatenated in order
RECURSIVE Flatten(_)
Flatten(seqs) ==
    IF seqs = << >> THEN << >> ELSE Head(seqs) \o Flatten(Tail(seqs))

\* the documents are in the order of the input list (ids 1, 2, ... there)
InInputOrder(docs) ==
    \A j, k \in 1..Len(docs) : j < k => docs[j] < docs[k]

\* C28: the documents of every pass are in the relative order of the input;
\* the chunks of a pass, concatenated in order, are the document list of the
\* pass and none is longer than the chunk size; the list rebuilt after a pass
\* holds exactly the documents of the pass whose id is in the retry set.
C28_OrderPreserved ==
    /\ [](InInputOrder(documents))
    /\ [](pc = "inflight" =>
            /\ Flatten(chunks) = documents
            /\ \A k \in DOMAIN chunks : Len(chunks[k]) <= chunksize)
    /\ [][ (pc = "inflight" /\ pc' = "sleep") =>
              /\ Range(documents') = Range(documents) \cap Range(failed_ids')
              /\ Len(documents') = Cardinality(Range(documents')) ]_vars

\* the second pass is in flight with the first and the third document, in
\* two chunks, after the second one was written
C28_Witness ==
    /\ pc = "inflight"
    /\ passes = 2
    /\ documents = << 1, 3 >>
    /\ chunks = << << 1 >>, << 3 >> >>
    /\ written = {2}

\* C29: when update_function has thrown in a subset task of
\* pull_update_push_async and the call is over, the call has returned
\* without an exception, and what it returned lists the failed documents of
\* the other tasks.
C29_AsyncThrowContained ==
    (variant = "async" /\ update_threw /\ pc # "async_run") =>
        /\ pc = "returned"
        /\ error = "none"
        /\ pup_output = PupDict(FailedOfTasks(tasks))

\* C30: whenever _write_documents is about to run a pass, the chunk size it
\* hands to the scheduler is at least 1.
C30_ChunksizeAtLeastOne ==
    (pc = "loop" /\ LoopContinues(i, number_of_retries, failed_ids)) =>
        chunksize >= 1

\* C31: after a pass in which one or more chunks were answered 413/524, the
\* chunk size is the chunk size of that pass multiplied by retry_chunk_mult
\* once, however many chunks were so answered.
C31_ShrinkOncePerPass ==
    (pc = "sleep" /\ lastOverload) =>
        chunksize = ShrinkChunksize(usedSize, retry_chunk_mult)

\* C32: at return of a call that ran a pass, the ids of
\* failed_documents_detailed are ids of failed_documents, one record each,
\* and they are exactly the ids the 200 answers of the last pass listed as
\* failed: the ids given up and the ids left over from 413/524 and other
\* answers have no record.
C32_DetailedFromFinalPass ==
    (Returned /\ passes >= 1) =>
        /\ Range(output.failed_documents_detailed)
              \subseteq Range(output.failed_documents)
        /\ Range(output.failed_documents_detailed) = listed
        /\ Len(output.failed_documents_detailed) = Cardinality(listed)
        /\ \A d \in Range(output.failed_documents) :
              d \in Range(output.failed_documents_detailed) <=> d \in listed
        /\ (givenUp \cup (retrySet \ listed))
              \cap Range(output.failed_documents_detailed) = {}

\* a call of two passes has returned: one document was given up, one was
\* listed as failed by the 200 answer of the last pass, one was left over from
\* another answer
C32_Witness ==
    /\ Returned
    /\ passes = 2
    /\ givenUp = {1}
    /\ listed = {2}
    /\ retrySet = {2, 3}
    /\ output.failed_documents_detailed = << 2 >>

\* C33: at return of _apply_bulk_fn on a non-empty list of documents with
\* distinct ids, the inserted count plus the number of failed_documents is
\* the number of input documents, and inserted does not exceed it.
C33_BulkEveryDocumentOnce ==
    (Returned /\ Len(documents) > 0 /\ bulk_output # NoOutput) =>
        /\ bulk_output.inserted + Len(bulk_output.failed_documents)
              = Len(documents)
        /\ bulk_output.inserted <= Len(documents)

\* C34: every bulk_fn call of _apply_bulk_fn sends exactly the documents
\* that remained after the call before, and none that an earlier call
\* reported written.
C34_BulkOnlyRemainingResent ==
    [][ bulk_calls' # bulk_calls =>
            /\ bulk_sent' = Range(documents_remaining)
            /\ bulk_sent' \cap bulk_written = {} ]_vars

\* C35: in pull_update_push_to_cloud the retrieve chunk size is at least 1
\* at all times, and the call never fails on the division by it.
C35_RetrieveChunkSizeAtLeastOne ==
    variant = "cloud" =>
        /\ retrieve_chunk_size >= 1
        /\ error # "ZeroDivisionError"

\* the facets of a response whose frequency is above the minimum
Qualifying(resp, minimum) ==
    { k \in DOMAIN resp.facets : resp.facets[k].frequency > minimum }

\* C36: list_cluster_ids is not left in its loop by a facet response that
\* has the cluster field but no facet above minimum_cluster_size: after
\* such a response the call has returned the empty list.
C36_NoFacetReturnsEmpty ==
    ( /\ called = "list_cluster_ids"
      /\ facet_results.kind = "facets"
      /\ all_cluster_ids = {}
      /\ Qualifying(facet_results, minimum_cluster_size) = {} )
    => ( /\ pc = "returned"
         /\ cluster_output = [ kind |-> "list", ids |-> {} ] )

\* C37: _get_cluster_field_name called on an instance as the constructor
\* leaves it returns "_cluster_.", the vector fields joined by ".", ".",
\* and the alias argument or, without one, the alias of the instance; it does
\* not fail.
C37_ClusterFieldName ==
    ( /\ called = "_get_cluster_field_name"
      /\ vector_fields.type = "tuple" )
    => ( /\ pc = "returned"
         /\ cluster_field =
              "_cluster_." \o Join(".", vector_fields.value[1]) \o "."
                 \o (IF alias_arg = NoCol THEN alias ELSE alias_arg) )

====
